---- MODULE Spec2Model ----
(***************************************************************************)
(* A model of the skill-exchange application: the relational schema and    *)
(* its row-level policies (the SQL migration), and the page components     *)
(* that query and mutate it (SwapRequestsPage, FeedbackPage, SearchPage).  *)
(*                                                                         *)
(* The backend is modelled with PostgreSQL's semantics for the statements  *)
(* the pages issue: an INSERT whose new row fails a policy's WITH CHECK or *)
(* a table constraint answers with an error; an UPDATE or DELETE touches   *)
(* only the rows its policy's USING admits and answers without error when  *)
(* that leaves no row.  A handler runs to its end in one step: its         *)
(* request, the answer, the state it sets and the toast it shows;          *)
(* searchUsers, which can be started again while it waits, is two steps.   *)
(* A handler that takes a set "fails" runs with the backend calls named in *)
(* the set answered { data: null, error } whatever was asked (an outage,   *)
(* an expired token); with the empty set every call is answered by the     *)
(* schema.                                                                 *)
(* Free-text columns that no rule reads (message, comment, category) are   *)
(* left out; display_name stands for the text columns of a profile         *)
(* (location, availability, avatar_url), which the code treats alike.      *)
(***************************************************************************)
EXTENDS Integers, Sequences, FiniteSets, TLC

(* ------------------------------ bounds -------------------------------- *)

\* swap requests ever inserted (ids are never reused)
MaxRequests == 1

\* rows of user_skills in a stored content
MaxUserSkills == 3

\* searchUsers calls of one page awaiting their answers
MaxInFlight == 1

\* the same where the race of two searches is looked at
MaxRacing == 2

\* rows in a drawn answer of the profiles query, and of the offered-skill query
MaxAnswerProfiles == 2

MaxAnswerRows == 3

\* rows of swap_requests, and of feedback, in a stored content that is read
MaxStoredRequests == 2

MaxStoredFeedback == 1

(* --------------------------- fixed universe --------------------------- *)

\* SQL NULL / JavaScript undefined, for text and user columns
NULL == "null"

\* the same for generated ids and integers, and the '' of an unset form field
NULLID == 0

\* a property an object was built without ({ id, ...undefined })
Undefined == "undefined"

\* auth.users
Users == {"A", "B", "C"}

\* browser sessions (one tab each), and the user signed in to each
Sessions == {"a1", "a2", "b1"}

SessionUser(s) == IF s = "b1" THEN "B" ELSE "A"

Statuses == {"pending", "accepted", "rejected"}

MinRating == 1

MaxRating == 5

VARIABLES
    auth_users,     \* auth.users: the ids of the users signed up
    profiles,       \* public.profiles: set of rows
    skills,         \* public.skills: set of rows
    user_skills,    \* public.user_skills: set of rows
    swap_requests,  \* public.swap_requests: set of rows
    feedback,       \* public.feedback: set of rows
    nextId,         \* the next generated swap request id
    page,           \* per session: the mounted page and its React state
    last,           \* the last handler run: its request, answer and toast
    answers         \* query answers handed to the grouping code of searchUsers

vars == <<auth_users, profiles, skills, user_skills, swap_requests, feedback, nextId, page, last, answers>>

(* ----------------------------- utilities ------------------------------ *)

Max(S) == CHOOSE x \in S : \A y \in S : y <= x

\* rows ordered by id, newest first: .order('created_at', { ascending: false })
RECURSIVE OrderDesc(_)
OrderDesc(rows) ==
    IF rows = {} THEN << >>
    ELSE LET top == CHOOSE r \in rows : \A q \in rows : q.id <= r.id
         IN  <<top>> \o OrderDesc(rows \ {top})

Range(seq) == {seq[i] : i \in 1..Len(seq)}

RECURSIVE SeqFilter(_, _)
SeqFilter(seq, keep) ==
    IF seq = << >> THEN << >>
    ELSE (IF Head(seq) \in keep THEN <<Head(seq)>> ELSE << >>) \o SeqFilter(Tail(seq), keep)

(* ----------------------- schema: swap_requests ------------------------ *)

\* CHECK (status IN ('pending', 'accepted', 'rejected'))
StatusCheck(status) == status \in Statuses

\* policy "Users can view their own swap requests"
SwapSelectUsing(uid, r) == uid = r.requester_id \/ uid = r.recipient_id

\* policy "Users can create swap requests"
SwapInsertCheck(uid, r) == uid = r.requester_id

\* policy "Users can update swap requests they're involved in"
SwapUpdateUsing(uid, r) == uid = r.requester_id \/ uid = r.recipient_id

\* the delete policy without its status condition
SwapDeleteUsing_AnyStatus(uid, r) == uid = r.requester_id

\* policy "Users can delete their own pending requests"
SwapDeleteUsing(uid, r) == uid = r.requester_id /\ r.status = "pending"

\* supabase.from('swap_requests').insert(row) as uid.  The answer is
\* [error, rows]: the SQLSTATE ("" for none) and the table afterwards.
SwapInsert(uid, row, table, skillTable) ==
    IF ~SwapInsertCheck(uid, row)
    THEN [error |-> "42501", rows |-> table]
    ELSE IF row.requester_id = NULL \/ row.recipient_id = NULL
          \/ row.offered_skill_id = NULLID \/ row.wanted_skill_id = NULLID
    THEN [error |-> "23502", rows |-> table]
    ELSE IF ~StatusCheck(row.status)
    THEN [error |-> "23514", rows |-> table]
    ELSE IF row.requester_id \notin Users \/ row.recipient_id \notin Users
          \/ row.offered_skill_id \notin {k.id : k \in skillTable}
          \/ row.wanted_skill_id \notin {k.id : k \in skillTable}
    THEN [error |-> "23503", rows |-> table]
    ELSE [error |-> "", rows |-> table \cup {row}]

\* the same update with an optimistic check the code does not make: only a
\* row that is still pending is written
SwapUpdateStatus_IfPending(uid, id, status, table) ==
    LET hit == {r \in table : r.id = id /\ r.status = "pending"
                               /\ SwapSelectUsing(uid, r) /\ SwapUpdateUsing(uid, r)}
        new(r) == [r EXCEPT !.status = status]
    IN  [error |-> "",
         rows  |-> (table \ hit) \cup {new(r) : r \in hit},
         count |-> Cardinality(hit)]

\* supabase.from('swap_requests').update({ status }).eq('id', id) as uid
SwapUpdateStatus(uid, id, status, table) ==
    LET hit == {r \in table : r.id = id /\ SwapSelectUsing(uid, r) /\ SwapUpdateUsing(uid, r)}
        new(r) == [r EXCEPT !.status = status]
    IN  IF \E r \in hit : ~SwapUpdateUsing(uid, new(r))
        THEN [error |-> "42501", rows |-> table, count |-> 0]
        ELSE IF hit # {} /\ ~StatusCheck(status)
        THEN [error |-> "23514", rows |-> table, count |-> 0]
        ELSE [error |-> "",
              rows  |-> (table \ hit) \cup {new(r) : r \in hit},
              count |-> Cardinality(hit)]

\* from('swap_requests').update({ requester_id, recipient_id }).eq('id', id)
\* as uid: the update policy states no WITH CHECK, so its USING is applied
\* to the new row as well
SwapUpdateParties(uid, id, requester, recipient, table) ==
    LET hit == {r \in table : r.id = id /\ SwapSelectUsing(uid, r) /\ SwapUpdateUsing(uid, r)}
        new(r) == [r EXCEPT !.requester_id = requester, !.recipient_id = recipient]
    IN  IF \E r \in hit : ~SwapUpdateUsing(uid, new(r))
        THEN [error |-> "42501", rows |-> table, count |-> 0]
        ELSE IF hit # {} /\ (requester = NULL \/ recipient = NULL)
        THEN [error |-> "23502", rows |-> table, count |-> 0]
        ELSE IF hit # {} /\ (requester \notin Users \/ recipient \notin Users)
        THEN [error |-> "23503", rows |-> table, count |-> 0]
        ELSE [error |-> "",
              rows  |-> (table \ hit) \cup {new(r) : r \in hit},
              count |-> Cardinality(hit)]

\* supabase.from('swap_requests').delete().eq('id', id) as uid
SwapDelete(uid, id, table) ==
    LET hit == {r \in table : r.id = id /\ SwapSelectUsing(uid, r) /\ SwapDeleteUsing(uid, r)}
    IN  [error |-> "", rows |-> table \ hit, count |-> Cardinality(hit)]

\* feedback.swap_request_id REFERENCES swap_requests(id) ON DELETE CASCADE
FeedbackCascade(fb, table) == {f \in fb : f.swap_request_id \in {r.id : r \in table}}

(* -------------------------- schema: feedback -------------------------- *)

\* CHECK (rating >= 1 AND rating <= 5)
RatingCheck(rating) == rating >= MinRating /\ rating <= MaxRating

\* the unique constraint on the swap request alone
FeedbackUnique_PerSwap(f, fb) == ~\E g \in fb : g.swap_request_id = f.swap_request_id

\* UNIQUE(swap_request_id, reviewer_id)
FeedbackUnique(f, fb) ==
    ~\E g \in fb : g.swap_request_id = f.swap_request_id /\ g.reviewer_id = f.reviewer_id

\* policy "Feedback is viewable by involved users"
FeedbackSelectUsing(uid, f) == uid = f.reviewer_id \/ uid = f.reviewee_id

\* policy "Users can create feedback"
FeedbackInsertCheck(uid, f) == uid = f.reviewer_id

\* supabase.from('feedback').insert(row) as uid
FeedbackInsert(uid, row, fb, table) ==
    IF ~FeedbackInsertCheck(uid, row)
    THEN [error |-> "42501", rows |-> fb]
    ELSE IF row.swap_request_id = NULLID \/ row.reviewer_id = NULL
          \/ row.reviewee_id = NULL \/ row.rating = NULLID
    THEN [error |-> "23502", rows |-> fb]
    ELSE IF ~RatingCheck(row.rating)
    THEN [error |-> "23514", rows |-> fb]
    ELSE IF ~FeedbackUnique(row, fb)
    THEN [error |-> "23505", rows |-> fb]
    ELSE IF row.swap_request_id \notin {r.id : r \in table}
          \/ row.reviewer_id \notin Users \/ row.reviewee_id \notin Users
    THEN [error |-> "23503", rows |-> fb]
    ELSE [error |-> "", rows |-> fb \cup {row}]

(* --------------------------- failing calls ---------------------------- *)

\* the error code of a call the backend could not serve
Unavailable == "503"

(* ------------------------------ toasts -------------------------------- *)

Toast(title, variant) == [title |-> title, variant |-> variant]

NoToast == Toast("", "")

\* one handler run: who ran what on which row, the backend's answer (its
\* SQLSTATE and the rows it touched) and the toast shown
Ran(op, s, id, arg, error, count, toast) ==
    [op |-> op, session |-> s, id |-> id, arg |-> arg,
     error |-> error, count |-> count, toast |-> toast]

(* ------------------- schema: reading profiles ------------------------- *)

\* SQL's "x = true" with a NULL read as true
IsTrue_NullPasses(v) == v # "false"

\* SQL's "x = true" as a filter: a NULL x does not pass
IsTrue(v) == v = "true"

\* policy "Public profiles are viewable by everyone"
ProfileSelectUsing(uid, p) == IsTrue(p.is_public) \/ uid = p.user_id

(* --------------------------- page components -------------------------- *)

EmptyForm == [swapRequestId |-> NULLID, revieweeId |-> NULL, rating |-> NULLID]

\* SearchPage's swapRequest state with nothing selected
NoSelection == [offeredSkillId |-> NULLID, wantedSkillId |-> NULLID]

\* ProfilePage's profile state before fetchProfile answers
EmptyProfile == [id |-> NULLID, display_name |-> "", is_public |-> "true"]

\* a session showing no page of the model (landing, ...); a page mounted has
\* the fields of its component, and a page whose first fetch is answered has
\* loading lowered
NoPage ==
    [route |-> "/", sentRequests |-> << >>, receivedRequests |-> << >>,
     acceptedSwaps |-> << >>, myFeedback |-> {}, feedbackForm |-> EmptyForm,
     searchTerm |-> << >>, users |-> << >>, loading |-> FALSE, inflight |-> << >>,
     profile |-> EmptyProfile, userSkills |-> << >>, allSkills |-> << >>,
     newSkillName |-> << >>,
     mySkills |-> << >>, selectedUser |-> NULL, swapRequest |-> NoSelection,
     dialog |-> NULL,
     adding |-> FALSE, sending |-> FALSE, submitting |-> FALSE, saving |-> FALSE,
     uploading |-> FALSE]

\* a setter that never lowers its flag
lowered_Never(view, flag) == view

\* finally { setLoading(false) }, and the same for adding, sending, submitting,
\* saving and uploading: the handler's last state update
lowered(view, flag) == [view EXCEPT ![flag] = FALSE]

(* SwapRequestsPage *)

\* one enriched record of the lists
\* { id, ...profilesMap.get(id) }: the display name of the profile answered
\* for the user, and none where the answer has no row of the user
Party(id, profilesMap) ==
    [id |-> id,
     display_name |-> IF \E p \in profilesMap : p.user_id = id
                      THEN (CHOOSE p \in profilesMap : p.user_id = id).display_name
                      ELSE Undefined]

\* skillsMap.get(id)
SkillOf(id, skillsMap) ==
    IF \E k \in skillsMap : k.id = id
    THEN LET k == CHOOSE j \in skillsMap : j.id = id IN [id |-> k.id, name |-> k.name]
    ELSE [id |-> NULLID, name |-> << >>]

\* from('profiles').select('user_id, display_name, avatar_url').in('user_id', userIds)
\* as uid, for the parties of the rows in data
ProfilesOf(uid, data, profileTable) ==
    {p \in profileTable :
        /\ ProfileSelectUsing(uid, p)
        /\ p.user_id \in {r.requester_id : r \in data} \cup {r.recipient_id : r \in data}}

\* from('skills').select('id, name').in('id', skillIds), for the skills of
\* the rows in data
SkillsOf(data, skillTable) ==
    {k \in skillTable :
        k.id \in {r.offered_skill_id : r \in data} \cup {r.wanted_skill_id : r \in data}}

SwapView(r, profilesMap, skillsMap) ==
    [id |-> r.id, status |-> r.status,
     requester |-> Party(r.requester_id, profilesMap),
     recipient |-> Party(r.recipient_id, profilesMap),
     offered_skill |-> SkillOf(r.offered_skill_id, skillsMap),
     wanted_skill |-> SkillOf(r.wanted_skill_id, skillsMap)]

\* the enriched records fetchSwapRequests builds from the answer of
\* from('swap_requests').select(...).or(requester_id.eq.uid,recipient_id.eq.uid).order(...)
transformedData(uid, table, profileTable, skillTable) ==
    LET rows == {r \in table :
                    SwapSelectUsing(uid, r)
                    /\ (r.requester_id = uid \/ r.recipient_id = uid)}
        data == OrderDesc(rows)
        profilesMap == ProfilesOf(uid, rows, profileTable)
        skillsMap   == SkillsOf(rows, skillTable)
    IN  [i \in 1..Len(data) |-> SwapView(data[i], profilesMap, skillsMap)]

\* mounting /swap-requests runs fetchSwapRequests: a failed query is thrown
\* and toasted, the lists staying empty
fetchSwapRequests(s, fails) ==
    LET uid  == SessionUser(s)
        rows == IF fails # {} THEN << >> ELSE transformedData(uid, swap_requests, profiles, skills)
        sent     == SeqFilter(rows, {q \in Range(rows) : q.requester.id = uid})
        received == SeqFilter(rows, {q \in Range(rows) : q.recipient.id = uid})
    IN  /\ page' = [page EXCEPT ![s] =
                       lowered([NoPage EXCEPT !.route = "/swap-requests",
                                              !.sentRequests = sent,
                                              !.receivedRequests = received], "loading")]
        /\ last' = Ran("fetchSwapRequests", s, NULLID, "",
                       IF fails = {} THEN "" ELSE Unavailable, Len(rows),
                       IF fails = {} THEN NoToast
                       ELSE Toast("Error loading swap requests", "destructive"))
        /\ UNCHANGED <<auth_users, profiles, skills, user_skills, swap_requests, feedback, nextId, answers>>

\* RequestCard: Accept and Decline are rendered for a received, pending card
AcceptDeclineShown(s, requestId) ==
    /\ page[s].route = "/swap-requests"
    /\ \E q \in Range(page[s].receivedRequests) : q.id = requestId /\ q.status = "pending"

\* RequestCard: Delete Request is rendered for a sent, pending card
DeleteShown(s, requestId) ==
    /\ page[s].route = "/swap-requests"
    /\ \E q \in Range(page[s].sentRequests) : q.id = requestId /\ q.status = "pending"

updateRequestStatus(s, requestId, status) ==
    LET ans == SwapUpdateStatus(SessionUser(s), requestId, status, swap_requests)
        prev == page[s].receivedRequests
    IN  /\ AcceptDeclineShown(s, requestId)
        /\ swap_requests' = ans.rows
        /\ IF ans.error # ""
           THEN /\ page' = page
                /\ last' = Ran("updateRequestStatus", s, requestId, status, ans.error, ans.count,
                               Toast("Error updating request", "destructive"))
           ELSE /\ page' = [page EXCEPT ![s].receivedRequests =
                               [i \in 1..Len(prev) |->
                                   IF prev[i].id = requestId
                                   THEN [prev[i] EXCEPT !.status = status]
                                   ELSE prev[i]]]
                /\ last' = Ran("updateRequestStatus", s, requestId, status, "", ans.count,
                               Toast("Request " \o status, "default"))
        /\ UNCHANGED <<auth_users, profiles, skills, user_skills, feedback, nextId, answers>>

deleteRequest(s, requestId) ==
    LET ans == SwapDelete(SessionUser(s), requestId, swap_requests)
        prev == page[s].sentRequests
    IN  /\ DeleteShown(s, requestId)
        /\ swap_requests' = ans.rows
        /\ feedback' = FeedbackCascade(feedback, ans.rows)
        /\ IF ans.error # ""
           THEN /\ page' = page
                /\ last' = Ran("deleteRequest", s, requestId, "", ans.error, ans.count,
                               Toast("Error deleting request", "destructive"))
           ELSE /\ page' = [page EXCEPT ![s].sentRequests =
                               SeqFilter(prev, {q \in Range(prev) : q.id # requestId})]
                /\ last' = Ran("deleteRequest", s, requestId, "", "", ans.count,
                               Toast("Request deleted", "default"))
        /\ UNCHANGED <<auth_users, profiles, skills, user_skills, nextId, answers>>

(* FeedbackPage *)

\* the ratings the model picks among the five of the rating Select
RatingChoices == {MinRating, MaxRating}

\* fetchAcceptedSwaps with its filter on the two party columns forgotten
\* and rows of any party answered
fetchAcceptedSwaps_AnyParty(uid, table, fb, profileTable, skillTable) ==
    LET rows == {r \in table : r.status = "accepted"}
        data == OrderDesc(rows)
        profilesMap == ProfilesOf(uid, rows, profileTable)
        skillsMap   == SkillsOf(rows, skillTable)
    IN  [i \in 1..Len(data) |->
            [id |-> data[i].id,
             requester |-> Party(data[i].requester_id, profilesMap),
             recipient |-> Party(data[i].recipient_id, profilesMap),
             offered_skill |-> SkillOf(data[i].offered_skill_id, skillsMap),
             wanted_skill |-> SkillOf(data[i].wanted_skill_id, skillsMap),
             has_feedback |-> \E f \in fb : f.swap_request_id = data[i].id /\ f.reviewer_id = uid]]

\* the list fetchAcceptedSwaps sets: the user's accepted swaps, each marked
\* with whether the user has already reviewed it
fetchAcceptedSwaps(uid, table, fb, profileTable, skillTable) ==
    LET rows == {r \in table :
                    SwapSelectUsing(uid, r) /\ r.status = "accepted"
                    /\ (r.requester_id = uid \/ r.recipient_id = uid)}
        data == OrderDesc(rows)
        profilesMap == ProfilesOf(uid, rows, profileTable)
        skillsMap   == SkillsOf(rows, skillTable)
        swapIds == {data[i].id : i \in 1..Len(data)}
        existingFeedback == {f \in fb : FeedbackSelectUsing(uid, f)
                                /\ f.swap_request_id \in swapIds /\ f.reviewer_id = uid}
        feedbackSwapIds == {f.swap_request_id : f \in existingFeedback}
    IN  [i \in 1..Len(data) |->
            [id |-> data[i].id,
             requester |-> Party(data[i].requester_id, profilesMap),
             recipient |-> Party(data[i].recipient_id, profilesMap),
             offered_skill |-> SkillOf(data[i].offered_skill_id, skillsMap),
             wanted_skill |-> SkillOf(data[i].wanted_skill_id, skillsMap),
             has_feedback |-> data[i].id \in feedbackSwapIds]]

\* the reviews fetchMyFeedback sets (their display order is left out)
fetchMyFeedback(uid, fb) ==
    {[reviewer |-> [id |-> f.reviewer_id], reviewee |-> [id |-> f.reviewee_id],
      rating |-> f.rating] :
        f \in {g \in fb : FeedbackSelectUsing(uid, g) /\ g.reviewee_id = uid}}

\* mounting /feedback runs both fetches.  A failed swap, profile or skill
\* query of fetchAcceptedSwaps is thrown and toasted, the list staying empty;
\* the error of its existingFeedback query is not read, so its undefined data
\* marks no swap as reviewed; fetchMyFeedback logs its error to the console.
FeedbackPage(s, fails) ==
    /\ page' = [page EXCEPT ![s] =
                   lowered([NoPage EXCEPT
                       !.route = "/feedback",
                       !.acceptedSwaps =
                           IF "fetchAcceptedSwaps" \in fails THEN << >>
                           ELSE IF "existingFeedback" \in fails
                           THEN fetchAcceptedSwaps(SessionUser(s), swap_requests, {}, profiles, skills)
                           ELSE fetchAcceptedSwaps(SessionUser(s), swap_requests, feedback, profiles, skills),
                       !.myFeedback =
                           IF "fetchMyFeedback" \in fails THEN {}
                           ELSE fetchMyFeedback(SessionUser(s), feedback)], "loading")]
    /\ last' = Ran("FeedbackPage", s, NULLID, "", IF fails = {} THEN "" ELSE Unavailable, 0,
                   IF "fetchAcceptedSwaps" \in fails
                   THEN Toast("Error loading swaps", "destructive")
                   ELSE NoToast)
    /\ UNCHANGED <<auth_users, profiles, skills, user_skills, swap_requests, feedback, nextId, answers>>

\* the list with the has_feedback filter forgotten
pendingFeedback_All(s) == page[s].acceptedSwaps

pendingFeedback(s) ==
    SeqFilter(page[s].acceptedSwaps, {q \in Range(page[s].acceptedSwaps) : ~q.has_feedback})

\* the swap Select's onValueChange
selectSwap(s, value) ==
    /\ page[s].route = "/feedback"
    /\ \E q \in Range(pendingFeedback(s)) : q.id = value
    /\ LET swap == CHOOSE q \in Range(page[s].acceptedSwaps) : q.id = value
           otherUser == IF swap.requester.id = SessionUser(s) THEN swap.recipient ELSE swap.requester
       IN  page' = [page EXCEPT ![s].feedbackForm.swapRequestId = value,
                                ![s].feedbackForm.revieweeId = otherUser.id]
    /\ last' = Ran("selectSwap", s, value, "", "", 0, NoToast)
    /\ UNCHANGED <<auth_users, profiles, skills, user_skills, swap_requests, feedback, nextId, answers>>

\* the rating Select's onValueChange
selectRating(s, rating) ==
    /\ page[s].route = "/feedback"
    /\ pendingFeedback(s) # << >>
    /\ page[s].feedbackForm.swapRequestId # NULLID
    /\ page' = [page EXCEPT ![s].feedbackForm.rating = rating]
    /\ last' = Ran("selectRating", s, rating, "", "", 0, NoToast)
    /\ UNCHANGED <<auth_users, profiles, skills, user_skills, swap_requests, feedback, nextId, answers>>

submitFeedback(s, fails) ==
    LET form == page[s].feedbackForm
        row  == [swap_request_id |-> form.swapRequestId, reviewer_id |-> SessionUser(s),
                 reviewee_id |-> form.revieweeId, rating |-> form.rating]
        ans  == IF fails # {}
                THEN [error |-> Unavailable, rows |-> feedback]
                ELSE FeedbackInsert(SessionUser(s), row, feedback, swap_requests)
    IN  /\ page[s].route = "/feedback"
        /\ pendingFeedback(s) # << >>
        /\ form.swapRequestId # NULLID
        /\ IF form.rating = NULLID \/ form.revieweeId = NULL
           THEN /\ last' = Ran("submitFeedback", s, form.swapRequestId, "", "", 0,
                               Toast("Please complete the form", "destructive"))
                /\ UNCHANGED <<page, feedback>>
           ELSE IF ans.error # ""
           THEN /\ last' = Ran("submitFeedback", s, form.swapRequestId, "", ans.error, 0,
                               Toast("Error submitting feedback", "destructive"))
                /\ page' = [page EXCEPT ![s] = lowered(@, "submitting")]
                /\ UNCHANGED feedback
           ELSE /\ feedback' = ans.rows
                /\ page' = [page EXCEPT ![s] =
                               lowered([@ EXCEPT
                                   !.feedbackForm = EmptyForm,
                                   !.acceptedSwaps = fetchAcceptedSwaps(SessionUser(s), swap_requests, ans.rows, profiles, skills),
                                   !.myFeedback = fetchMyFeedback(SessionUser(s), ans.rows)],
                                   "submitting")]
                /\ last' = Ran("submitFeedback", s, form.swapRequestId, "", "", 1,
                               Toast("Feedback submitted!", "default"))
        /\ UNCHANGED <<auth_users, profiles, skills, user_skills, swap_requests, nextId, answers>>

(* SearchPage: the request dialog *)

\* fetchMySkills: the user's rows, each as its skill and its direction
RECURSIVE fetchMySkills(_, _, _)
fetchMySkills(uid, userSkillTable, skillTable) ==
    LET own == {r \in userSkillTable : r.user_id = uid}
        before(r, q) == \/ r.skill_id < q.skill_id
                        \/ r.skill_id = q.skill_id /\ (r.skill_type = "offered" \/ q.skill_type = "wanted")
    IN  IF own = {} THEN << >>
        ELSE LET item == CHOOSE r \in own : \A q \in own : before(r, q)
                 k    == CHOOSE j \in skillTable : j.id = item.skill_id
             IN  <<[id |-> k.id, name |-> k.name, skill_type |-> item.skill_type]>>
                     \o fetchMySkills(uid, userSkillTable \ {item}, skillTable)

\* mounting /search runs fetchMySkills
SearchPage(s) ==
    /\ page' = [page EXCEPT ![s] =
                   [NoPage EXCEPT !.route = "/search",
                                  !.mySkills = fetchMySkills(SessionUser(s), user_skills, skills)]]
    /\ last' = Ran("SearchPage", s, NULLID, "", "", 0, NoToast)
    /\ UNCHANGED <<auth_users, profiles, skills, user_skills, swap_requests, feedback, nextId, answers>>

\* sendSwapRequest with the dialog's user and the two skills selected in it
sendSwapRequest(s, selectedUser, offeredSkillId, wantedSkillId, fails) ==
    LET row == [id |-> nextId, requester_id |-> SessionUser(s), recipient_id |-> selectedUser,
                offered_skill_id |-> offeredSkillId, wanted_skill_id |-> wantedSkillId,
                status |-> "pending"]
        ans == IF fails # {}
               THEN [error |-> Unavailable, rows |-> swap_requests]
               ELSE SwapInsert(SessionUser(s), row, swap_requests, skills)
    IN  /\ page[s].route = "/search"
        /\ nextId <= MaxRequests
        /\ IF offeredSkillId = NULLID \/ wantedSkillId = NULLID
           THEN /\ last' = Ran("sendSwapRequest", s, NULLID, selectedUser, "", 0,
                               Toast("Please select skills", "destructive"))
                /\ UNCHANGED <<swap_requests, nextId, page>>
           ELSE IF ans.error # ""
           THEN /\ last' = Ran("sendSwapRequest", s, NULLID, selectedUser, ans.error, 0,
                               Toast("Error sending request", "destructive"))
                /\ page' = [page EXCEPT ![s] = lowered(@, "sending")]
                /\ UNCHANGED <<swap_requests, nextId>>
           ELSE /\ swap_requests' = ans.rows
                /\ nextId' = nextId + 1
                /\ page' = [page EXCEPT ![s] =
                               lowered([@ EXCEPT !.selectedUser = NULL,
                                                 !.swapRequest = NoSelection], "sending")]
                /\ last' = Ran("sendSwapRequest", s, row.id, selectedUser, "", 1,
                               Toast("Swap request sent!", "default"))
        /\ UNCHANGED <<auth_users, profiles, skills, user_skills, feedback, answers>>

(* ------------------------- the stored catalogue ----------------------- *)

Guitar == <<"G", "u", "i", "t", "a", "r">>

Spanish == <<"S", "p", "a", "n", "i", "s", "h">>

\* the skills table of every behaviour: two rows, ids 1 and 2
SkillRows == {[id |-> 1, name |-> Guitar], [id |-> 2, name |-> Spanish]}

SkillIds == {k.id : k \in SkillRows}

\* handle_new_user, fired by a signup: INSERT INTO public.profiles (user_id,
\* display_name), the id generated and is_public by its default
handle_new_user(u, displayName, table) ==
    table \cup {[id |-> Max({p.id : p \in table} \cup {0}) + 1, user_id |-> u,
                 display_name |-> displayName, is_public |-> "true"]}

\* the profiles once A, B and C have signed up, no display name given
\* (C has switched the public flag off, so no dialog is ever opened for C)
ProfileRows ==
    {[p EXCEPT !.is_public = IF p.user_id = "C" THEN "false" ELSE "true"] :
        p \in handle_new_user("C", NULL, handle_new_user("B", NULL, handle_new_user("A", NULL, {})))}

\* the users a request dialog of session s can be open for: SearchPage lists
\* public profiles other than the searcher's
DialogUsers(s) == {p.user_id : p \in {q \in profiles : q.is_public = "true"}} \ {SessionUser(s)}

NoAnswers == [data |-> << >>, allUserSkills |-> << >>]

(* --------------------- the pages, session by session ------------------ *)

Init ==
    /\ auth_users = Users
    /\ profiles = ProfileRows
    /\ skills = SkillRows
    /\ user_skills = {}
    /\ swap_requests = {}
    /\ feedback = {}
    /\ nextId = 1
    /\ page = [s \in Sessions |-> NoPage]
    /\ last = Ran("", "", NULLID, "", "", 0, NoToast)
    /\ answers = NoAnswers

Next ==
    \E s \in Sessions :
        \/ fetchSwapRequests(s, {})
        \/ \E id \in 1..MaxRequests, status \in {"accepted", "rejected"} :
               updateRequestStatus(s, id, status)
        \/ \E id \in 1..MaxRequests : deleteRequest(s, id)
        \/ FeedbackPage(s, {})
        \/ \E id \in 1..MaxRequests : selectSwap(s, id)
        \/ \E rating \in RatingChoices : selectRating(s, rating)
        \/ submitFeedback(s, {})
        \/ SearchPage(s)
        \/ \E u \in DialogUsers(s), o \in {1, NULLID}, w \in {2, NULLID} :
               sendSwapRequest(s, u, o, w, {})

Spec == Init /\ [][Next]_vars

(* ------------- any authenticated client of the backend ---------------- *)
(* The policies face every holder of a session token, not only the pages: *)
(* here each user sends the four mutating statements with any arguments.  *)

apiInsertSwapRequest(uid, requester, recipient, status) ==
    LET row == [id |-> nextId, requester_id |-> requester, recipient_id |-> recipient,
                offered_skill_id |-> 1, wanted_skill_id |-> 2, status |-> status]
        ans == SwapInsert(uid, row, swap_requests, skills)
    IN  /\ nextId <= MaxRequests
        /\ swap_requests' = ans.rows
        /\ nextId' = IF ans.error = "" THEN nextId + 1 ELSE nextId
        /\ last' = Ran("insert", uid, row.id, status, ans.error,
                       IF ans.error = "" THEN 1 ELSE 0, NoToast)
        /\ UNCHANGED <<auth_users, profiles, skills, user_skills, feedback, page, answers>>

apiUpdateSwapRequest(uid, id, status) ==
    LET ans == SwapUpdateStatus(uid, id, status, swap_requests)
    IN  /\ swap_requests' = ans.rows
        /\ last' = Ran("update", uid, id, status, ans.error, ans.count, NoToast)
        /\ UNCHANGED <<auth_users, profiles, skills, user_skills, feedback, nextId, page, answers>>

\* an update of the two party columns, which no page sends
apiUpdateSwapRequestParties(uid, id, requester, recipient) ==
    LET ans == SwapUpdateParties(uid, id, requester, recipient, swap_requests)
    IN  /\ swap_requests' = ans.rows
        /\ last' = Ran("updateParties", uid, id, requester, ans.error, ans.count, NoToast)
        /\ UNCHANGED <<auth_users, profiles, skills, user_skills, feedback, nextId, page, answers>>

apiDeleteSwapRequest(uid, id) ==
    LET ans == SwapDelete(uid, id, swap_requests)
    IN  /\ swap_requests' = ans.rows
        /\ feedback' = FeedbackCascade(feedback, ans.rows)
        /\ last' = Ran("delete", uid, id, "", ans.error, ans.count, NoToast)
        /\ UNCHANGED <<auth_users, profiles, skills, user_skills, nextId, page, answers>>

apiInsertFeedback(uid, swapId, reviewer, reviewee, rating) ==
    LET row == [swap_request_id |-> swapId, reviewer_id |-> reviewer,
                reviewee_id |-> reviewee, rating |-> rating]
        ans == FeedbackInsert(uid, row, feedback, swap_requests)
    IN  /\ feedback' = ans.rows
        /\ last' = Ran("insertFeedback", uid, swapId, reviewer, ans.error,
                       IF ans.error = "" THEN 1 ELSE 0, NoToast)
        /\ UNCHANGED <<auth_users, profiles, skills, user_skills, swap_requests, nextId, page, answers>>

ApiNext ==
    \E uid \in Users :
        \/ \E requester \in Users, recipient \in Users, status \in Statuses :
               apiInsertSwapRequest(uid, requester, recipient, status)
        \/ \E id \in 1..MaxRequests, status \in Statuses : apiUpdateSwapRequest(uid, id, status)
        \/ \E id \in 1..MaxRequests, requester \in Users, recipient \in Users :
               apiUpdateSwapRequestParties(uid, id, requester, recipient)
        \/ \E id \in 1..MaxRequests : apiDeleteSwapRequest(uid, id)
        \/ \E id \in 1..MaxRequests, reviewer \in Users, reviewee \in Users, rating \in {MinRating} :
               apiInsertFeedback(uid, id, reviewer, reviewee, rating)

ApiSpec == Init /\ [][ApiNext]_vars

(* ------------------------ SearchPage: searchUsers --------------------- *)
(* Text is a sequence of one-character strings.                           *)

UpperToLower ==
    [c \in {"A", "B", "C", "D", "E", "F", "G", "H", "I", "J", "K", "L", "M",
            "N", "O", "P", "Q", "R", "S", "T", "U", "V", "W", "X", "Y", "Z"} |->
        CASE c = "A" -> "a" [] c = "B" -> "b" [] c = "C" -> "c" [] c = "D" -> "d"
          [] c = "E" -> "e" [] c = "F" -> "f" [] c = "G" -> "g" [] c = "H" -> "h"
          [] c = "I" -> "i" [] c = "J" -> "j" [] c = "K" -> "k" [] c = "L" -> "l"
          [] c = "M" -> "m" [] c = "N" -> "n" [] c = "O" -> "o" [] c = "P" -> "p"
          [] c = "Q" -> "q" [] c = "R" -> "r" [] c = "S" -> "s" [] c = "T" -> "t"
          [] c = "U" -> "u" [] c = "V" -> "v" [] c = "W" -> "w" [] c = "X" -> "x"
          [] c = "Y" -> "y" [] c = "Z" -> "z"]

Lower(c) == IF c \in DOMAIN UpperToLower THEN UpperToLower[c] ELSE c

Whitespace == {" ", "\t", "\n"}

\* String.prototype.trim
RECURSIVE TrimStart(_)
TrimStart(str) ==
    IF str # << >> /\ Head(str) \in Whitespace THEN TrimStart(Tail(str)) ELSE str

RECURSIVE TrimEnd(_)
TrimEnd(str) ==
    IF str # << >> /\ str[Len(str)] \in Whitespace
    THEN TrimEnd(SubSeq(str, 1, Len(str) - 1))
    ELSE str

trim(str) == TrimEnd(TrimStart(str))

\* PostgreSQL's str ILIKE pattern: % is any run of characters, _ any one
\* character, every other character matches itself whatever its case
RECURSIVE ILike(_, _)
ILike(str, pattern) ==
    IF pattern = << >> THEN str = << >>
    ELSE IF Head(pattern) = "%"
    THEN ILike(str, Tail(pattern)) \/ (str # << >> /\ ILike(Tail(str), pattern))
    ELSE /\ str # << >>
         /\ (Head(pattern) = "_" \/ Lower(Head(pattern)) = Lower(Head(str)))
         /\ ILike(Tail(str), Tail(pattern))

\* the order in which the model lists users wherever the backend's answer
\* has rows of several users (the queries of searchUsers state no order)
UserOrder == <<"A", "B", "C">>

\* from('skills').select('id').ilike('name', `%${searchTerm}%`)
MatchingSkills(searchTerm, skillTable) ==
    {k.id : k \in {j \in skillTable : ILike(j.name, <<"%">> \o searchTerm \o <<"%">>)}}

\* from('user_skills').select('user_id').eq('skill_type', 'offered').in('skill_id', skillIds)
\* and the distinct user ids of its rows
OfferingUsers(skillIds, userSkillTable) ==
    {us.user_id : us \in {r \in userSkillTable : r.skill_type = "offered" /\ r.skill_id \in skillIds}}

\* the profiles query with its neq filter forgotten
ProfilesQuery_Self(uid, userIds, profileTable) ==
    SeqFilter(UserOrder,
              {p.user_id : p \in {q \in profileTable :
                  ProfileSelectUsing(uid, q) /\ IsTrue(q.is_public) /\ q.user_id \in userIds}})

\* from('profiles').select(...).eq('is_public', true).neq('user_id', user?.id).in('user_id', userIds):
\* the user_id of each row answered
ProfilesQuery(uid, userIds, profileTable) ==
    SeqFilter(UserOrder,
              {p.user_id : p \in {q \in profileTable :
                  /\ ProfileSelectUsing(uid, q)
                  /\ IsTrue(q.is_public) /\ q.user_id # uid /\ q.user_id \in userIds}})

\* the rows of one user, by skill id
RECURSIVE SkillRowsOf(_, _, _)
SkillRowsOf(u, ids, skillTable) ==
    IF ids = {} THEN << >>
    ELSE LET i == CHOOSE x \in ids : \A y \in ids : x <= y
             k == CHOOSE j \in skillTable : j.id = i
         IN  <<[user_id |-> u, skills |-> [id |-> k.id, name |-> k.name]]>>
                 \o SkillRowsOf(u, ids \ {i}, skillTable)

RECURSIVE JoinedRows(_, _, _, _)
JoinedRows(order, keep, userSkillTable, skillTable) ==
    IF order = << >> THEN << >>
    ELSE LET u == Head(order)
         IN  SkillRowsOf(u, {r.skill_id : r \in {q \in userSkillTable : q \in keep /\ q.user_id = u}},
                         skillTable)
                 \o JoinedRows(Tail(order), keep, userSkillTable, skillTable)

\* the offered-skill query with its skill_type filter forgotten
OfferedSkillsQuery_AnyType(userIds, userSkillTable, skillTable) ==
    JoinedRows(UserOrder, {r \in userSkillTable : r.user_id \in userIds},
               userSkillTable, skillTable)

\* from('user_skills').select('user_id, skills (id, name)').eq('skill_type', 'offered').in('user_id', userIds)
OfferedSkillsQuery(userIds, userSkillTable, skillTable) ==
    JoinedRows(UserOrder,
               {r \in userSkillTable : r.skill_type = "offered" /\ r.user_id \in userIds},
               userSkillTable, skillTable)

\* a row of the offered-skill query whose embedded skill is null
NoSkill == [id |-> NULLID, name |-> << >>]

\* the grouping loop pushing every row's skill
RECURSIVE AddSkills_NoFind(_, _)
AddSkills_NoFind(userMap, allUserSkills) ==
    IF allUserSkills = << >> THEN userMap
    ELSE LET userSkill == Head(allUserSkills)
             at == {i \in 1..Len(userMap) : userMap[i].user_id = userSkill.user_id}
             next == IF at # {} /\ userSkill.skills # NoSkill
                     THEN [userMap EXCEPT ![Max(at)].offeredSkills = Append(@, userSkill.skills)]
                     ELSE userMap
         IN  AddSkills_NoFind(next, Tail(allUserSkills))

\* "Add skills to user profiles": allUserSkills.forEach(...)
RECURSIVE AddSkills(_, _)
AddSkills(userMap, allUserSkills) ==
    IF allUserSkills = << >> THEN userMap
    ELSE LET userSkill == Head(allUserSkills)
             at == {i \in 1..Len(userMap) : userMap[i].user_id = userSkill.user_id}
             next == IF at # {} /\ userSkill.skills # NoSkill
                        /\ ~\E j \in 1..Len(userMap[Max(at)].offeredSkills) :
                              userMap[Max(at)].offeredSkills[j].id = userSkill.skills.id
                     THEN [userMap EXCEPT ![Max(at)].offeredSkills = Append(@, userSkill.skills)]
                     ELSE userMap
         IN  AddSkills(next, Tail(allUserSkills))

\* "Group skills by user": data.forEach(...), the Map kept in insertion order
RECURSIVE NewUserMap(_, _)
NewUserMap(userMap, data) ==
    IF data = << >> THEN userMap
    ELSE NewUserMap(IF \E i \in 1..Len(userMap) : userMap[i].user_id = Head(data)
                    THEN userMap
                    ELSE Append(userMap, [user_id |-> Head(data), offeredSkills |-> << >>]),
                    Tail(data))

\* Array.from(userMap.values()) after both loops
GroupSkills(data, allUserSkills) == AddSkills(NewUserMap(<< >>, data), allUserSkills)

\* what a searchUsers call for searchTerm by uid sets as users
SearchResult(uid, searchTerm) ==
    LET skillIds == MatchingSkills(searchTerm, skills)
        userIds  == OfferingUsers(skillIds, user_skills)
        \* the two queries on the user ids found, the ids computed once
        grouped  == [ids \in {userIds} |->
                        GroupSkills(ProfilesQuery(uid, ids, profiles),
                                    OfferedSkillsQuery(ids, user_skills, skills))]
    IN  IF skillIds = {} THEN << >>
        ELSE IF userIds = {} THEN << >>
        ELSE grouped[userIds]

\* the search Input's onChange
setSearchTerm(s, value) ==
    /\ page[s].route = "/search"
    /\ page' = [page EXCEPT ![s].searchTerm = value]
    /\ last' = Ran("setSearchTerm", s, NULLID, value, "", 0, NoToast)
    /\ UNCHANGED <<auth_users, profiles, skills, user_skills, swap_requests, feedback, nextId, answers>>

\* searchUsers up to its first await (Enter in the Input, which no flag
\* gates, or the button): a blank term returns at once; otherwise loading is
\* raised and the queries for the term go out
searchUsers(s) ==
    /\ page[s].route = "/search"
    /\ IF trim(page[s].searchTerm) = << >>
       THEN page' = page
       ELSE page' = [page EXCEPT ![s].loading = TRUE,
                                 ![s].inflight = Append(@, page[s].searchTerm)]
    /\ last' = Ran("searchUsers", s, NULLID, page[s].searchTerm, "", 0, NoToast)
    /\ UNCHANGED <<auth_users, profiles, skills, user_skills, swap_requests, feedback, nextId, answers>>

\* the rest of a searchUsers call once its queries are answered: setUsers,
\* or the toast of a failed query, and setLoading(false) in finally
searchUsersAnswered(s, i, fails) ==
    /\ page[s].route = "/search"
    /\ i \in 1..Len(page[s].inflight)
    /\ LET searchTerm == page[s].inflight[i]
           rest == SubSeq(page[s].inflight, 1, i - 1)
                       \o SubSeq(page[s].inflight, i + 1, Len(page[s].inflight))
       IN  IF fails # {}
           THEN /\ page' = [page EXCEPT ![s] = lowered([@ EXCEPT !.inflight = rest], "loading")]
                /\ last' = Ran("searchUsersAnswered", s, NULLID, searchTerm, Unavailable, 0,
                               Toast("Error searching users", "destructive"))
           ELSE /\ page' = [page EXCEPT ![s] =
                               lowered([@ EXCEPT !.users = SearchResult(SessionUser(s), searchTerm),
                                                 !.inflight = rest], "loading")]
                /\ last' = Ran("searchUsersAnswered", s, NULLID, searchTerm, "", 0, NoToast)
    /\ UNCHANGED <<auth_users, profiles, skills, user_skills, swap_requests, feedback, nextId, answers>>

\* the terms typed in the model
Terms ==
    {<< >>, <<" ">>, <<"g", "u", "i", "t", "a", "r">>,
     <<"s", "p", "a", "n", "i", "s", "h">>, <<"x">>, <<"_">>}

\* every stored content the search can meet: any public flag on each profile,
\* any user_skills rows the table's unique constraint allows, up to MaxUserSkills
PublicFlags == {"true", "false", "null"}

UserSkillRows == [user_id : Users, skill_id : SkillIds, skill_type : {"offered", "wanted"}]

SearchInit ==
    /\ auth_users = Users
    /\ \E flag \in [Users -> PublicFlags] :
          profiles = {[p EXCEPT !.is_public = flag[p.user_id]] : p \in ProfileRows}
    /\ skills = SkillRows
    /\ user_skills \in {rows \in SUBSET UserSkillRows : Cardinality(rows) <= MaxUserSkills}
    /\ swap_requests = {}
    /\ feedback = {}
    /\ nextId = 1
    /\ page = [s \in Sessions |-> IF s = "a1" THEN [NoPage EXCEPT !.route = "/search"] ELSE NoPage]
    /\ last = Ran("", "", NULLID, "", "", 0, NoToast)
    /\ answers = NoAnswers

SearchNext ==
    \E s \in Sessions :
        \/ \E value \in Terms : setSearchTerm(s, value)
        \/ Len(page[s].inflight) < MaxInFlight /\ searchUsers(s)
        \/ \E i \in 1..MaxInFlight : searchUsersAnswered(s, i, {})

SearchSpec == SearchInit /\ [][SearchNext]_vars

(* ------------------- searches racing within one page ------------------ *)
(* Enter in the search Input calls searchUsers whatever loading is, so a   *)
(* page can have several calls awaiting their answers, and the backend     *)
(* answers them in any order.  B offers Guitar, A and C offer Spanish.     *)

RaceTerms ==
    {<<"g", "u", "i", "t", "a", "r">>, <<"s", "p", "a", "n", "i", "s", "h">>, <<"x">>}

RaceInit ==
    /\ auth_users = Users
    /\ profiles = ProfileRows
    /\ skills = SkillRows
    /\ user_skills = {[id |-> 1, user_id |-> "B", skill_id |-> 1, skill_type |-> "offered"],
                      [id |-> 2, user_id |-> "A", skill_id |-> 2, skill_type |-> "offered"],
                      [id |-> 3, user_id |-> "C", skill_id |-> 2, skill_type |-> "offered"]}
    /\ swap_requests = {}
    /\ feedback = {}
    /\ nextId = 1
    /\ page = [s \in Sessions |-> NoPage]
    /\ last = Ran("", "", NULLID, "", "", 0, NoToast)
    /\ answers = NoAnswers

RaceNext ==
    \E s \in {"a1", "b1"} :
        \/ SearchPage(s)
        \/ \E value \in RaceTerms : setSearchTerm(s, value)
        \/ Len(page[s].inflight) < MaxRacing /\ searchUsers(s)
        \/ \E i \in 1..MaxRacing : searchUsersAnswered(s, i, {})

RaceSpec == RaceInit /\ [][RaceNext]_vars

(* ------------- the grouping code on any pair of answers --------------- *)

\* the users and skills the drawn answers speak of
AnswerUsers == {"B", "C"}

AnswerSkills == {[id |-> k.id, name |-> k.name] : k \in SkillRows} \cup {NoSkill}

RECURSIVE SeqsUpTo(_, _)
SeqsUpTo(S, n) ==
    IF n = 0 THEN {<< >>}
    ELSE LET shorter == SeqsUpTo(S, n - 1)
         IN  shorter \cup {Append(q, x) : q \in shorter, x \in S}

\* any answer of the profiles query and any answer of the offered-skill
\* query, rows repeated or not, up to the two bounds
GroupInit ==
    /\ auth_users = Users
    /\ profiles = ProfileRows
    /\ skills = SkillRows
    /\ user_skills = {}
    /\ swap_requests = {}
    /\ feedback = {}
    /\ nextId = 1
    /\ page = [s \in Sessions |-> IF s = "a1" THEN [NoPage EXCEPT !.route = "/search"] ELSE NoPage]
    /\ last = Ran("", "", NULLID, "", "", 0, NoToast)
    /\ \E data \in SeqsUpTo(AnswerUsers, MaxAnswerProfiles),
          allUserSkills \in SeqsUpTo([user_id : AnswerUsers, skills : AnswerSkills], MaxAnswerRows) :
          answers = [data |-> data, allUserSkills |-> allUserSkills]

\* lines 150-177 of searchUsers on the answers drawn
groupAnswers(s) ==
    /\ page[s].route = "/search"
    /\ page' = [page EXCEPT ![s].users = GroupSkills(answers.data, answers.allUserSkills)]
    /\ last' = Ran("groupAnswers", s, NULLID, "", "", 0, NoToast)
    /\ UNCHANGED <<auth_users, profiles, skills, user_skills, swap_requests, feedback, nextId, answers>>

GroupNext == \E s \in Sessions : groupAnswers(s)

GroupSpec == GroupInit /\ [][GroupNext]_vars

(* ------------- schema: profiles, skills, user_skills ------------------ *)

\* policy "Users can insert their own profile"
ProfileInsertCheck(uid, p) == uid = p.user_id

\* policy "Users can update their own profile"
ProfileUpdateUsing(uid, p) == uid = p.user_id

\* profiles.user_id UNIQUE, without the constraint
ProfileUserUnique_None(p, table) == TRUE

\* profiles.user_id UNIQUE
ProfileUserUnique(p, table) == ~\E q \in table : q.user_id = p.user_id

\* supabase.from('profiles').upsert(data) as uid: INSERT ... ON CONFLICT (id)
\* DO UPDATE, the conflict target being the primary key; a data.id of NULLID
\* is a payload without id, whose row gets a generated id
ProfileUpsert(uid, data, table) ==
    LET row == [data EXCEPT !.id = IF data.id = NULLID
                                   THEN Max({p.id : p \in table} \cup {0}) + 1
                                   ELSE data.id]
        old == {p \in table : p.id = row.id}
    IN  IF ~ProfileInsertCheck(uid, row)
        THEN [error |-> "42501", rows |-> table]
        ELSE IF row.user_id = NULL
        THEN [error |-> "23502", rows |-> table]
        ELSE IF old # {}
        THEN IF \E p \in old : ~ProfileUpdateUsing(uid, p) \/ ~ProfileUpdateUsing(uid, row)
             THEN [error |-> "42501", rows |-> table]
             ELSE IF ~ProfileUserUnique(row, table \ old)
             THEN [error |-> "23505", rows |-> table]
             ELSE [error |-> "", rows |-> (table \ old) \cup {row}]
        ELSE IF ~ProfileUserUnique(row, table)
        THEN [error |-> "23505", rows |-> table]
        ELSE IF row.user_id \notin Users
        THEN [error |-> "23503", rows |-> table]
        ELSE [error |-> "", rows |-> table \cup {row}]

\* from('profiles').update({ user_id, is_public }).eq('user_id', target) as uid
ProfileUpdate(uid, target, newUser, flag, table) ==
    LET hit == {p \in table : p.user_id = target /\ ProfileSelectUsing(uid, p)
                                 /\ ProfileUpdateUsing(uid, p)}
        new(p) == [p EXCEPT !.user_id = newUser, !.is_public = flag]
    IN  IF \E p \in hit : ~ProfileUpdateUsing(uid, new(p))
        THEN [error |-> "42501", rows |-> table, count |-> 0]
        ELSE IF \E p \in hit : ~ProfileUserUnique(new(p), table \ hit)
        THEN [error |-> "23505", rows |-> table, count |-> 0]
        ELSE [error |-> "",
              rows  |-> (table \ hit) \cup {new(p) : p \in hit},
              count |-> Cardinality(hit)]

\* from('profiles').delete().eq('user_id', target) as uid: the table has no
\* delete policy, so no row is visible to the statement
ProfileDelete(uid, target, table) == [error |-> "", rows |-> table, count |-> 0]

\* skills.name UNIQUE
SkillNameUnique(name, table) == ~\E k \in table : k.name = name

\* supabase.from('skills').insert({ name }).select().single()
\* (policy "Authenticated users can create skills" checks nothing)
SkillInsert(name, table) ==
    LET row == [id |-> Max({k.id : k \in table} \cup {0}) + 1, name |-> name]
    IN  IF ~SkillNameUnique(name, table)
        THEN [error |-> "23505", rows |-> table, row |-> row]
        ELSE [error |-> "", rows |-> table \cup {row}, row |-> row]

\* a policy on user_skills that admits every signed-in user
UserSkillUsing_Anyone(uid, r) == uid \in Users

\* policy "Users can manage their own skills", for all statements: with no
\* WITH CHECK stated its USING is applied to new rows as well
UserSkillUsing(uid, r) == uid = r.user_id

\* CHECK (skill_type IN ('offered', 'wanted'))
SkillTypeCheck(type) == type \in {"offered", "wanted"}

\* the unique constraint without the skill_type column
UserSkillUnique_AnyType(r, table) ==
    ~\E q \in table : q.user_id = r.user_id /\ q.skill_id = r.skill_id

\* UNIQUE(user_id, skill_id, skill_type)
UserSkillUnique(r, table) ==
    ~\E q \in table : q.user_id = r.user_id /\ q.skill_id = r.skill_id
                         /\ q.skill_type = r.skill_type

\* supabase.from('user_skills').insert(row) as uid
UserSkillInsert(uid, row, table, skillTable) ==
    IF ~UserSkillUsing(uid, row)
    THEN [error |-> "42501", rows |-> table]
    ELSE IF row.user_id = NULL \/ row.skill_id = NULLID
    THEN [error |-> "23502", rows |-> table]
    ELSE IF ~SkillTypeCheck(row.skill_type)
    THEN [error |-> "23514", rows |-> table]
    ELSE IF ~UserSkillUnique(row, table)
    THEN [error |-> "23505", rows |-> table]
    ELSE IF row.user_id \notin Users \/ row.skill_id \notin {k.id : k \in skillTable}
    THEN [error |-> "23503", rows |-> table]
    ELSE [error |-> "", rows |-> table \cup {row}]

\* from('user_skills').update({ user_id, skill_type }).eq('id', id) as uid
UserSkillUpdate(uid, id, newUser, type, table) ==
    LET hit == {r \in table : r.id = id /\ UserSkillUsing(uid, r)}
        new(r) == [r EXCEPT !.user_id = newUser, !.skill_type = type]
    IN  IF \E r \in hit : ~UserSkillUsing(uid, new(r))
        THEN [error |-> "42501", rows |-> table, count |-> 0]
        ELSE IF \E r \in hit : ~UserSkillUnique(new(r), table \ hit)
        THEN [error |-> "23505", rows |-> table, count |-> 0]
        ELSE [error |-> "",
              rows  |-> (table \ hit) \cup {new(r) : r \in hit},
              count |-> Cardinality(hit)]

\* supabase.from('user_skills').delete().eq('id', id) as uid
UserSkillDelete(uid, id, table) ==
    LET hit == {r \in table : r.id = id /\ UserSkillUsing(uid, r)}
    IN  [error |-> "", rows |-> table \ hit, count |-> Cardinality(hit)]

(* ---------------------- SkillsPage and ProfilePage -------------------- *)

\* user_skills rows ever inserted (ids are never reused), and skills rows
\* created beyond the catalogue
MaxSkillAdds == 2

MaxNewSkills == 1

\* String.prototype.toLowerCase
LowerStr(str) == [i \in 1..Len(str) |-> Lower(str[i])]

\* rows ordered by id, oldest first
RECURSIVE OrderAsc(_)
OrderAsc(rows) ==
    IF rows = {} THEN << >>
    ELSE LET low == CHOOSE r \in rows : \A q \in rows : r.id <= q.id
         IN  <<low>> \o OrderAsc(rows \ {low})

\* fetchUserSkills: the user's rows, each with its embedded skill
fetchUserSkills(uid, userSkillTable, skillTable) ==
    LET data == OrderAsc({r \in userSkillTable : r.user_id = uid})
    IN  [i \in 1..Len(data) |->
            [id |-> data[i].id,
             skill |-> LET k == CHOOSE j \in skillTable : j.id = data[i].skill_id
                       IN  [id |-> k.id, name |-> k.name],
             skill_type |-> data[i].skill_type]]

\* fetchAllSkills: every row of skills (is_approved keeps its default, true).
\* Only the first match of addSkill's find reads the order of the list; the
\* model lists the rows by id, where .order('name') follows the collation.
fetchAllSkills(skillTable) == OrderAsc(skillTable)

\* mounting /skills runs fetchUserSkills and fetchAllSkills: the first
\* toasts its error, the second logs it to the console; a failed fetch
\* leaves its list as it starts, empty
SkillsPage(s, fails) ==
    /\ page' = [page EXCEPT ![s] =
                   lowered([NoPage EXCEPT
                       !.route = "/skills",
                       !.userSkills =
                           IF "fetchUserSkills" \in fails THEN << >>
                           ELSE fetchUserSkills(SessionUser(s), user_skills, skills),
                       !.allSkills =
                           IF "fetchAllSkills" \in fails THEN << >>
                           ELSE fetchAllSkills(skills)], "loading")]
    /\ last' = Ran("SkillsPage", s, NULLID, "", IF fails = {} THEN "" ELSE Unavailable, 0,
                   IF "fetchUserSkills" \in fails
                   THEN Toast("Error loading skills", "destructive")
                   ELSE NoToast)
    /\ UNCHANGED <<auth_users, profiles, skills, user_skills, swap_requests, feedback, nextId, answers>>

\* the skill Input's onChange
setNewSkillName(s, value) ==
    /\ page[s].route = "/skills"
    /\ page' = [page EXCEPT ![s].newSkillName = value]
    /\ last' = Ran("setNewSkillName", s, NULLID, "", "", 0, NoToast)
    /\ UNCHANGED <<auth_users, profiles, skills, user_skills, swap_requests, feedback, nextId, answers>>

addSkill(s, skillType, fails) ==
    LET newSkillName == page[s].newSkillName
        allSkills == page[s].allSkills
        found   == {i \in 1..Len(allSkills) : LowerStr(allSkills[i].name) = LowerStr(newSkillName)}
        created == IF "skills.insert" \in fails
                   THEN [error |-> Unavailable, rows |-> skills, row |-> NoSkill]
                   ELSE SkillInsert(trim(newSkillName), skills)
        skill   == IF found # {}
                   THEN allSkills[CHOOSE i \in found : \A j \in found : i <= j]
                   ELSE created.row
        known   == IF found # {} THEN allSkills ELSE Append(allSkills, skill)
        table   == IF found # {} THEN skills ELSE created.rows
        row     == [id |-> nextId, user_id |-> SessionUser(s), skill_id |-> skill.id,
                    skill_type |-> skillType]
        ans     == IF "user_skills.insert" \in fails
                   THEN [error |-> Unavailable, rows |-> user_skills]
                   ELSE UserSkillInsert(SessionUser(s), row, user_skills, table)
    IN  /\ page[s].route = "/skills"
        /\ IF trim(newSkillName) = << >>
           THEN /\ last' = Ran("addSkill", s, NULLID, skillType, "", 0, NoToast)
                /\ UNCHANGED <<page, skills, user_skills, nextId>>
           ELSE IF found = {} /\ created.error # ""
           THEN /\ last' = Ran("addSkill", s, NULLID, skillType, created.error, 0,
                               Toast("Error adding skill", "destructive"))
                /\ page' = [page EXCEPT ![s] = lowered(@, "adding")]
                /\ UNCHANGED <<skills, user_skills, nextId>>
           ELSE /\ ans.error = "" => nextId <= MaxSkillAdds
                /\ found = {} => Cardinality(skills) < Cardinality(SkillRows) + MaxNewSkills
                /\ skills' = table
                /\ IF ans.error # ""
                   THEN /\ page' = [page EXCEPT ![s] = lowered([@ EXCEPT !.allSkills = known], "adding")]
                        /\ last' = Ran("addSkill", s, NULLID, skillType, ans.error, 0,
                                       Toast("Error adding skill", "destructive"))
                        /\ UNCHANGED <<user_skills, nextId>>
                   ELSE /\ user_skills' = ans.rows
                        /\ nextId' = nextId + 1
                        /\ page' = [page EXCEPT ![s] =
                              lowered([@ EXCEPT
                                  !.allSkills = known,
                                  !.userSkills = Append(page[s].userSkills,
                                                        [id |-> row.id,
                                                         skill |-> [id |-> skill.id, name |-> skill.name],
                                                         skill_type |-> skillType]),
                                  !.newSkillName = << >>], "adding")]
                        /\ last' = Ran("addSkill", s, row.id, skillType, "", 1,
                                       Toast("Skill added", "default"))
        /\ UNCHANGED <<auth_users, profiles, swap_requests, feedback, answers>>

\* the X of a badge of the page's list
removeSkill(s, userSkillId, fails) ==
    LET ans  == IF "user_skills.delete" \in fails
                THEN [error |-> Unavailable, rows |-> user_skills, count |-> 0]
                ELSE UserSkillDelete(SessionUser(s), userSkillId, user_skills)
        prev == page[s].userSkills
    IN  /\ page[s].route = "/skills"
        /\ \E q \in Range(prev) : q.id = userSkillId
        /\ user_skills' = ans.rows
        /\ IF ans.error # ""
           THEN /\ page' = page
                /\ last' = Ran("removeSkill", s, userSkillId, "", ans.error, ans.count,
                               Toast("Error removing skill", "destructive"))
           ELSE /\ page' = [page EXCEPT ![s].userSkills =
                               SeqFilter(prev, {q \in Range(prev) : q.id # userSkillId})]
                /\ last' = Ran("removeSkill", s, userSkillId, "", "", ans.count,
                               Toast("Skill removed", "default"))
        /\ UNCHANGED <<auth_users, profiles, skills, swap_requests, feedback, nextId, answers>>

\* the names typed into the skill Input
NewSkillNames == {<<"g", "u", "i", "t", "a", "r">>, <<"G", "o">>}

SkillsNext ==
    \E s \in Sessions :
        \/ SkillsPage(s, {})
        \/ \E value \in NewSkillNames : setNewSkillName(s, value)
        \/ \E skillType \in {"offered", "wanted"} : addSkill(s, skillType, {})
        \/ \E id \in 1..MaxSkillAdds : removeSkill(s, id, {})

SkillsSpec == Init /\ [][SkillsNext]_vars

\* names that differ from one another, or from a stored name, in letter case
\* or in a leading space only
CaseNames == {<<"G", "o">>, <<"g", "o">>, <<" ", "g", "u", "i", "t", "a", "r">>}

CaseNext ==
    \E s \in {"a1", "b1"} :
        \/ SkillsPage(s, {})
        \/ \E value \in CaseNames : setNewSkillName(s, value)
        \/ addSkill(s, "offered", {})

CaseSpec == Init /\ [][CaseNext]_vars

(* ProfilePage *)

\* a signup: the new row of auth.users fires on_auth_user_created
signUp(u, displayName) ==
    /\ u \notin auth_users
    /\ auth_users' = auth_users \cup {u}
    /\ profiles' = handle_new_user(u, displayName, profiles)
    /\ last' = Ran("signUp", u, NULLID, displayName, "", 1, NoToast)
    /\ UNCHANGED <<skills, user_skills, swap_requests, feedback, nextId, page, answers>>

\* mounting /profile, open to a signed-in user, runs fetchProfile: a failed
\* query is thrown and toasted, the form staying empty
ProfilePage(s, fails) ==
    LET data == IF fails # {} THEN {}
                ELSE {p \in profiles : ProfileSelectUsing(SessionUser(s), p)
                                           /\ p.user_id = SessionUser(s)}
    IN  /\ SessionUser(s) \in auth_users
        /\ page' = [page EXCEPT ![s] =
                       lowered([NoPage EXCEPT
                           !.route = "/profile",
                           !.profile = IF data = {} THEN EmptyProfile
                                       ELSE LET p == CHOOSE q \in data : TRUE
                                            IN  [id |-> p.id, display_name |-> p.display_name,
                                                 is_public |-> p.is_public]], "loading")]
        /\ last' = Ran("ProfilePage", s, NULLID, "", IF fails = {} THEN "" ELSE Unavailable, 0,
                       IF fails = {} THEN NoToast
                       ELSE Toast("Error loading profile", "destructive"))
        /\ UNCHANGED <<auth_users, profiles, skills, user_skills, swap_requests, feedback, nextId, answers>>

\* the form's inputs: the display name Input and the public Switch
setProfile(s, displayName, isPublic) ==
    /\ page[s].route = "/profile"
    /\ page' = [page EXCEPT ![s].profile.display_name = displayName,
                            ![s].profile.is_public = isPublic]
    /\ last' = Ran("setProfile", s, NULLID, displayName, "", 0, NoToast)
    /\ UNCHANGED <<auth_users, profiles, skills, user_skills, swap_requests, feedback, nextId, answers>>

\* the form's submit (the display name Input is required, so the browser
\* submits only with a name typed): profileData carries user_id and the
\* form's values, and no id
handleSubmit(s, fails) ==
    LET profile == page[s].profile
        profileData == [id |-> NULLID, user_id |-> SessionUser(s),
                        display_name |-> profile.display_name, is_public |-> profile.is_public]
        ans == IF fails # {}
               THEN [error |-> Unavailable, rows |-> profiles]
               ELSE ProfileUpsert(SessionUser(s), profileData, profiles)
    IN  /\ page[s].route = "/profile"
        /\ profile.display_name \notin {"", NULL}
        /\ profiles' = ans.rows
        /\ page' = [page EXCEPT ![s] = lowered(@, "saving")]
        /\ last' = IF ans.error # ""
                   THEN Ran("handleSubmit", s, NULLID, profile.display_name, ans.error, 0,
                            Toast("Error updating profile", "destructive"))
                   ELSE Ran("handleSubmit", s, NULLID, profile.display_name, "", 1,
                            Toast("Profile updated", "default"))
        /\ UNCHANGED <<auth_users, skills, user_skills, swap_requests, feedback, nextId, answers>>

\* the file Input's onChange with a file chosen: the upload to the avatars
\* bucket, then the toast (avatar_url is among the text columns left out)
handleFileUpload(s, fails) ==
    /\ page[s].route = "/profile"
    /\ page' = [page EXCEPT ![s] = lowered(@, "uploading")]
    /\ last' = IF fails # {}
               THEN Ran("handleFileUpload", s, NULLID, "", Unavailable, 0,
                        Toast("Error uploading avatar", "destructive"))
               ELSE Ran("handleFileUpload", s, NULLID, "", "", 1,
                        Toast("Avatar uploaded", "default"))
    /\ UNCHANGED <<auth_users, profiles, skills, user_skills, swap_requests, feedback, nextId, answers>>

\* the display names given at signup and typed into the form
DisplayNames == {"", "Ann"}

\* nobody has signed up yet
ProfileInit ==
    /\ auth_users = {}
    /\ profiles = {}
    /\ skills = SkillRows
    /\ user_skills = {}
    /\ swap_requests = {}
    /\ feedback = {}
    /\ nextId = 1
    /\ page = [s \in Sessions |-> NoPage]
    /\ last = Ran("", "", NULLID, "", "", 0, NoToast)
    /\ answers = NoAnswers

ProfileNext ==
    \/ \E u \in Users, displayName \in DisplayNames \cup {NULL} : signUp(u, displayName)
    \/ \E s \in Sessions :
          \/ ProfilePage(s, {})
          \/ \E displayName \in DisplayNames, isPublic \in {"true", "false"} :
                 setProfile(s, displayName, isPublic)
          \/ handleSubmit(s, {})

ProfileSpec == ProfileInit /\ [][ProfileNext]_vars

(* ------- any authenticated client: profiles and user_skills ----------- *)
(* Each user sends every statement on the two tables with any arguments.  *)

apiUpsertProfile(uid, id, user, isPublic) ==
    LET data == [id |-> id, user_id |-> user, display_name |-> NULL, is_public |-> isPublic]
        ans  == ProfileUpsert(uid, data, profiles)
    IN  /\ profiles' = ans.rows
        /\ last' = Ran("upsertProfile", uid, id, user, ans.error,
                       IF ans.error = "" THEN 1 ELSE 0, NoToast)
        /\ UNCHANGED <<auth_users, skills, user_skills, swap_requests, feedback, nextId, page, answers>>

apiUpdateProfile(uid, target, newUser, isPublic) ==
    LET ans == ProfileUpdate(uid, target, newUser, isPublic, profiles)
    IN  /\ profiles' = ans.rows
        /\ last' = Ran("updateProfile", uid, NULLID, target, ans.error, ans.count, NoToast)
        /\ UNCHANGED <<auth_users, skills, user_skills, swap_requests, feedback, nextId, page, answers>>

apiDeleteProfile(uid, target) ==
    LET ans == ProfileDelete(uid, target, profiles)
    IN  /\ profiles' = ans.rows
        /\ last' = Ran("deleteProfile", uid, NULLID, target, ans.error, ans.count, NoToast)
        /\ UNCHANGED <<auth_users, skills, user_skills, swap_requests, feedback, nextId, page, answers>>

apiInsertUserSkill(uid, user, skillId, skillType) ==
    LET row == [id |-> nextId, user_id |-> user, skill_id |-> skillId, skill_type |-> skillType]
        ans == UserSkillInsert(uid, row, user_skills, skills)
    IN  /\ nextId <= MaxSkillAdds
        /\ user_skills' = ans.rows
        /\ nextId' = IF ans.error = "" THEN nextId + 1 ELSE nextId
        /\ last' = Ran("insertUserSkill", uid, row.id, user, ans.error,
                       IF ans.error = "" THEN 1 ELSE 0, NoToast)
        /\ UNCHANGED <<auth_users, profiles, skills, swap_requests, feedback, page, answers>>

apiUpdateUserSkill(uid, id, newUser, skillType) ==
    LET ans == UserSkillUpdate(uid, id, newUser, skillType, user_skills)
    IN  /\ user_skills' = ans.rows
        /\ last' = Ran("updateUserSkill", uid, id, newUser, ans.error, ans.count, NoToast)
        /\ UNCHANGED <<auth_users, profiles, skills, swap_requests, feedback, nextId, page, answers>>

apiDeleteUserSkill(uid, id) ==
    LET ans == UserSkillDelete(uid, id, user_skills)
    IN  /\ user_skills' = ans.rows
        /\ last' = Ran("deleteUserSkill", uid, id, "", ans.error, ans.count, NoToast)
        /\ UNCHANGED <<auth_users, profiles, skills, swap_requests, feedback, nextId, page, answers>>

OwnerNext ==
    \E uid \in Users :
        \/ \E id \in {NULLID} \cup {p.id : p \in ProfileRows}, user \in Users :
               apiUpsertProfile(uid, id, user, "false")
        \/ \E target \in Users, newUser \in Users : apiUpdateProfile(uid, target, newUser, "false")
        \/ \E target \in Users : apiDeleteProfile(uid, target)
        \/ \E user \in Users, skillType \in {"offered", "wanted"} :
               apiInsertUserSkill(uid, user, 1, skillType)
        \/ \E id \in 1..MaxSkillAdds, newUser \in Users : apiUpdateUserSkill(uid, id, newUser, "wanted")
        \/ \E id \in 1..MaxSkillAdds : apiDeleteUserSkill(uid, id)

OwnerSpec == Init /\ [][OwnerNext]_vars

(* ------------------- the pages with failing calls --------------------- *)

(* Navbar *)

\* handleSignOut: supabase.auth.signOut() answers { error } and the handler
\* does not read it, so with the call failed or not it navigates to the
\* landing page and toasts success (a session signed out signs in again
\* before it opens a page)
handleSignOut(s, fails) ==
    /\ page' = [page EXCEPT ![s] = NoPage]
    /\ last' = Ran("handleSignOut", s, NULLID, "", IF "signOut" \in fails THEN Unavailable ELSE "", 0,
                   Toast("Signed out successfully", "default"))
    /\ UNCHANGED <<auth_users, profiles, skills, user_skills, swap_requests, feedback, nextId, answers>>

\* the skills and feedback pages and the navbar, any of their calls failing
FaultNext ==
    \E s \in {"a1", "b1"} :
        \/ \E fails \in SUBSET {"fetchUserSkills", "fetchAllSkills"} : SkillsPage(s, fails)
        \/ \E value \in NewSkillNames : setNewSkillName(s, value)
        \/ \E fails \in {{}, {"skills.insert"}, {"user_skills.insert"}} :
               addSkill(s, "offered", fails)
        \/ \E id \in 1..MaxSkillAdds, fails \in SUBSET {"user_skills.delete"} :
               removeSkill(s, id, fails)
        \/ \E fails \in SUBSET {"fetchAcceptedSwaps", "existingFeedback", "fetchMyFeedback"} :
               FeedbackPage(s, fails)
        \/ \E fails \in SUBSET {"signOut"} : handleSignOut(s, fails)

FaultSpec == Init /\ [][FaultNext]_vars

(* ----------------- handlers between request and answer --------------- *)
(* Each handler that raises a busy flag is followed here in two steps: the   *)
(* step up to its first await, which raises the flag, and the handler's      *)
(* action above for the rest, taken once the flag is up.  A page that starts *)
(* with loading raised shows a spinner and nothing else until its first      *)
(* fetch is answered.  An input is not edited while the handler that reads   *)
(* it awaits its answer: the handler runs on the values it began with.       *)

\* the first render of such a page, its fetches sent and not yet answered
mounted(s, route) ==
    /\ route \in {"/swap-requests", "/feedback", "/skills", "/profile"}
    /\ page' = [page EXCEPT ![s] = [NoPage EXCEPT !.route = route, !.loading = TRUE]]
    /\ last' = Ran("mounted", s, NULLID, route, "", 0, NoToast)
    /\ UNCHANGED <<auth_users, profiles, skills, user_skills, swap_requests, feedback, nextId, answers>>

\* addSkill up to its first await: a blank name returns before the flag
setAdding(s) ==
    /\ page[s].route = "/skills"
    /\ ~page[s].loading
    /\ trim(page[s].newSkillName) # << >>
    /\ page' = [page EXCEPT ![s].adding = TRUE]
    /\ last' = Ran("setAdding", s, NULLID, "", "", 0, NoToast)
    /\ UNCHANGED <<auth_users, profiles, skills, user_skills, swap_requests, feedback, nextId, answers>>

\* sendSwapRequest up to its first await, both skills selected
setSending(s) ==
    /\ page[s].route = "/search"
    /\ nextId <= MaxRequests
    /\ ~page[s].sending
    /\ page' = [page EXCEPT ![s].sending = TRUE]
    /\ last' = Ran("setSending", s, NULLID, "", "", 0, NoToast)
    /\ UNCHANGED <<auth_users, profiles, skills, user_skills, swap_requests, feedback, nextId, answers>>

\* submitFeedback up to its first await, the form complete
setSubmitting(s) ==
    /\ page[s].route = "/feedback"
    /\ ~page[s].loading
    /\ pendingFeedback(s) # << >>
    /\ page[s].feedbackForm.swapRequestId # NULLID
    /\ page[s].feedbackForm.rating # NULLID
    /\ ~page[s].submitting
    /\ page' = [page EXCEPT ![s].submitting = TRUE]
    /\ last' = Ran("setSubmitting", s, NULLID, "", "", 0, NoToast)
    /\ UNCHANGED <<auth_users, profiles, skills, user_skills, swap_requests, feedback, nextId, answers>>

\* handleSubmit up to its first await
setSaving(s) ==
    /\ page[s].route = "/profile"
    /\ ~page[s].loading
    /\ page[s].profile.display_name \notin {"", NULL}
    /\ ~page[s].saving
    /\ page' = [page EXCEPT ![s].saving = TRUE]
    /\ last' = Ran("setSaving", s, NULLID, "", "", 0, NoToast)
    /\ UNCHANGED <<auth_users, profiles, skills, user_skills, swap_requests, feedback, nextId, answers>>

\* handleFileUpload up to its first await, a file chosen
setUploading(s) ==
    /\ page[s].route = "/profile"
    /\ ~page[s].loading
    /\ ~page[s].uploading
    /\ page' = [page EXCEPT ![s].uploading = TRUE]
    /\ last' = Ran("setUploading", s, NULLID, "", "", 0, NoToast)
    /\ UNCHANGED <<auth_users, profiles, skills, user_skills, swap_requests, feedback, nextId, answers>>

\* the rest of each kind of handler of session s, its flag raised
fetchAnswered(s) ==
    /\ page[s].loading
    /\ \E fails \in {{}, {"failed"}} :
          \/ page[s].route = "/swap-requests" /\ fetchSwapRequests(s, fails)
          \/ page[s].route = "/feedback"
                /\ FeedbackPage(s, IF fails = {} THEN {} ELSE {"fetchAcceptedSwaps"})
          \/ page[s].route = "/skills"
                /\ SkillsPage(s, IF fails = {} THEN {} ELSE {"fetchUserSkills"})
          \/ page[s].route = "/profile" /\ ProfilePage(s, fails)

searchAnswered(s) ==
    \E i \in 1..MaxInFlight, fails \in {{}, {"failed"}} : searchUsersAnswered(s, i, fails)

addSkillAnswered(s) ==
    /\ page[s].adding
    /\ \E fails \in {{}, {"skills.insert"}, {"user_skills.insert"}} : addSkill(s, "offered", fails)

sendAnswered(s) ==
    /\ page[s].sending
    /\ \E u \in DialogUsers(s), fails \in {{}, {"failed"}} : sendSwapRequest(s, u, 1, 2, fails)

submitAnswered(s) ==
    /\ page[s].submitting
    /\ \E fails \in {{}, {"failed"}} : submitFeedback(s, fails)

saveAnswered(s) ==
    /\ page[s].saving
    /\ \E fails \in {{}, {"failed"}} : handleSubmit(s, fails)

uploadAnswered(s) ==
    /\ page[s].uploading
    /\ \E fails \in {{}, {"failed"}} : handleFileUpload(s, fails)

\* B offers Guitar (a row whose id the model never generates)
BusyInit ==
    /\ auth_users = Users
    /\ profiles = ProfileRows
    /\ skills = SkillRows
    /\ user_skills = {[id |-> MaxSkillAdds + 1, user_id |-> "B", skill_id |-> 1,
                       skill_type |-> "offered"]}
    /\ swap_requests = {}
    /\ feedback = {}
    /\ nextId = 1
    /\ page = [s \in Sessions |-> NoPage]
    /\ last = Ran("", "", NULLID, "", "", 0, NoToast)
    /\ answers = NoAnswers

BusyNext ==
    \/ \E s \in {"a1"} :
          \/ \E route \in {"/swap-requests", "/feedback", "/skills", "/profile"} : mounted(s, route)
          \/ fetchAnswered(s)
          \/ SearchPage(s)
          \/ \E value \in {<<"g", "u", "i", "t", "a", "r">>, <<"x">>} : setSearchTerm(s, value)
          \/ Len(page[s].inflight) < MaxInFlight /\ searchUsers(s)
          \/ searchAnswered(s)
          \/ setSending(s)
          \/ sendAnswered(s)
          \/ ~page[s].loading /\ \E id \in 1..MaxRequests : selectSwap(s, id)
          \/ ~page[s].loading /\ selectRating(s, MaxRating)
          \/ setSubmitting(s)
          \/ submitAnswered(s)
          \/ ~page[s].loading /\ ~page[s].adding /\ setNewSkillName(s, <<"G", "o">>)
          \/ setAdding(s)
          \/ addSkillAnswered(s)
          \/ ~page[s].loading /\ ~page[s].saving /\ setProfile(s, "Ann", "true")
          \/ setSaving(s)
          \/ saveAnswered(s)
          \/ setUploading(s)
          \/ uploadAnswered(s)
    \/ fetchSwapRequests("b1", {})
    \/ \E id \in 1..MaxRequests : updateRequestStatus("b1", id, "accepted")

\* the backend answers every call it was sent
BusyFairness ==
    \A s \in {"a1"} :
        /\ WF_vars(fetchAnswered(s))
        /\ WF_vars(searchAnswered(s))
        /\ WF_vars(addSkillAnswered(s))
        /\ WF_vars(sendAnswered(s))
        /\ WF_vars(submitAnswered(s))
        /\ WF_vars(saveAnswered(s))
        /\ WF_vars(uploadAnswered(s))

BusySpec == BusyInit /\ [][BusyNext]_vars /\ BusyFairness

(* ------------------ the request dialog of SearchPage ------------------ *)
(* Each result card has its own Dialog, opened by the card's button; the   *)
(* page keeps one selectedUser and one swapRequest for all of them.  The   *)
(* field dialog is the user of the card whose Dialog is open: the Dialog   *)
(* is modal, so the search Input is used while none is open.               *)

\* the card's "Send Swap Request" button: the Dialog opens and
\* onClick={() => setSelectedUser(userProfile)}
setSelectedUser(s, userProfile) ==
    /\ page[s].route = "/search"
    /\ page[s].dialog = NULL
    /\ page[s].inflight = << >>
    /\ \E i \in 1..Len(page[s].users) : page[s].users[i].user_id = userProfile
    /\ page' = [page EXCEPT ![s].dialog = userProfile, ![s].selectedUser = userProfile]
    /\ last' = Ran("setSelectedUser", s, NULLID, userProfile, "", 0, NoToast)
    /\ UNCHANGED <<auth_users, profiles, skills, user_skills, swap_requests, feedback, nextId, answers>>

\* the Dialog dismissed (Escape, the close button, a click outside): no
\* handler of the page runs
closeDialog(s) ==
    /\ page[s].route = "/search"
    /\ page[s].dialog # NULL
    /\ page' = [page EXCEPT ![s].dialog = NULL]
    /\ last' = Ran("closeDialog", s, NULLID, "", "", 0, NoToast)
    /\ UNCHANGED <<auth_users, profiles, skills, user_skills, swap_requests, feedback, nextId, answers>>

\* myOfferedSkills, the items of the "Skill I'll offer" Select
myOfferedSkills(s) ==
    {page[s].mySkills[i].id :
        i \in {j \in 1..Len(page[s].mySkills) : page[s].mySkills[j].skill_type = "offered"}}

\* userProfile.offeredSkills of a card, the items of its "Skill I want to
\* learn" Select
CardSkills(s, userProfile) ==
    UNION {{page[s].users[i].offeredSkills[j].id : j \in 1..Len(page[s].users[i].offeredSkills)} :
              i \in {k \in 1..Len(page[s].users) : page[s].users[k].user_id = userProfile}}

\* onValueChange of the first Select of the open Dialog
setOfferedSkillId(s, value) ==
    /\ page[s].route = "/search"
    /\ page[s].dialog # NULL
    /\ value \in myOfferedSkills(s)
    /\ page' = [page EXCEPT ![s].swapRequest.offeredSkillId = value]
    /\ last' = Ran("setOfferedSkillId", s, value, "", "", 0, NoToast)
    /\ UNCHANGED <<auth_users, profiles, skills, user_skills, swap_requests, feedback, nextId, answers>>

\* onValueChange of the second Select of the open Dialog
setWantedSkillId(s, value) ==
    /\ page[s].route = "/search"
    /\ page[s].dialog # NULL
    /\ value \in CardSkills(s, page[s].dialog)
    /\ page' = [page EXCEPT ![s].swapRequest.wantedSkillId = value]
    /\ last' = Ran("setWantedSkillId", s, value, "", "", 0, NoToast)
    /\ UNCHANGED <<auth_users, profiles, skills, user_skills, swap_requests, feedback, nextId, answers>>

\* every profile public (the column's default); A and C offer Guitar,
\* B offers Spanish
DialogInit ==
    /\ auth_users = Users
    /\ profiles = {[p EXCEPT !.is_public = "true"] : p \in ProfileRows}
    /\ skills = SkillRows
    /\ user_skills = {[id |-> 1, user_id |-> "A", skill_id |-> 1, skill_type |-> "offered"],
                      [id |-> 2, user_id |-> "B", skill_id |-> 2, skill_type |-> "offered"],
                      [id |-> 3, user_id |-> "C", skill_id |-> 1, skill_type |-> "offered"]}
    /\ swap_requests = {}
    /\ feedback = {}
    /\ nextId = 1
    /\ page = [s \in Sessions |-> NoPage]
    /\ last = Ran("", "", NULLID, "", "", 0, NoToast)
    /\ answers = NoAnswers

DialogNext ==
    \E s \in {"a1"} :
        \/ SearchPage(s)
        \/ \E value \in RaceTerms : page[s].dialog = NULL /\ setSearchTerm(s, value)
        \/ page[s].dialog = NULL /\ page[s].inflight = << >> /\ searchUsers(s)
        \/ searchUsersAnswered(s, 1, {})
        \/ \E userProfile \in Users : setSelectedUser(s, userProfile)
        \/ closeDialog(s)
        \/ \E value \in SkillIds : setOfferedSkillId(s, value)
        \/ \E value \in SkillIds : setWantedSkillId(s, value)
        \/ /\ page[s].dialog # NULL
           /\ sendSwapRequest(s, page[s].selectedUser, page[s].swapRequest.offeredSkillId,
                              page[s].swapRequest.wantedSkillId, {})

DialogSpec == DialogInit /\ [][DialogNext]_vars

(* ------------- the enriched lists on any stored profiles -------------- *)
(* Two requests are stored, an accepted one of A with C and a pending one *)
(* of B with A; each profile is public or not, with a display name or not *)

EnrichInit ==
    /\ auth_users = Users
    /\ \E flag \in [Users -> {"true", "false"}], named \in [Users -> BOOLEAN] :
          profiles = {[p EXCEPT !.is_public = flag[p.user_id],
                                !.display_name = IF named[p.user_id] THEN p.user_id ELSE NULL] :
                         p \in ProfileRows}
    /\ skills = SkillRows
    /\ user_skills = {}
    /\ swap_requests = {[id |-> 1, requester_id |-> "A", recipient_id |-> "C",
                         offered_skill_id |-> 1, wanted_skill_id |-> 2, status |-> "accepted"],
                        [id |-> 2, requester_id |-> "B", recipient_id |-> "A",
                         offered_skill_id |-> 2, wanted_skill_id |-> 1, status |-> "pending"]}
    /\ feedback = {}
    /\ nextId = 3
    /\ page = [s \in Sessions |-> NoPage]
    /\ last = Ran("", "", NULLID, "", "", 0, NoToast)
    /\ answers = NoAnswers

EnrichNext == \E s \in Sessions : fetchSwapRequests(s, {}) \/ FeedbackPage(s, {})

EnrichSpec == EnrichInit /\ [][EnrichNext]_vars

(* ====================== swap request lifecycle ======================== *)

\* C1 (as claimed): a stored status changes only from pending, and only to
\* accepted or rejected; every other status change leaves the row as it was.
C1_StatusOnlyLeavesPending ==
    [][\A r \in swap_requests, q \in swap_requests' :
          (q.id = r.id /\ q.status # r.status)
              => (r.status = "pending" /\ q.status \in {"accepted", "rejected"})]_vars

\* a delete statement for row r, sent by user uid, is the step taken
DeleteStepBy(uid, r) == last'.op = "delete" /\ last'.session = uid /\ last'.id = r.id

\* C2: a swap request row leaves the table only in a step that is a delete
\* sent by its requester while its stored status is pending.
C2_RemovedOnlyByRequesterWhilePending ==
    [][\A r \in swap_requests :
          (~\E q \in swap_requests' : q.id = r.id)
              => (DeleteStepBy(r.requester_id, r) /\ r.status = "pending")]_vars

\* C2 witness: the recipient, who is not the requester, has sent a delete for
\* a stored row and the row is still there.
C2_Witness ==
    /\ last.op = "delete" /\ last.count = 0
    /\ \E r \in swap_requests :
          r.id = last.id /\ last.session = r.recipient_id /\ last.session # r.requester_id

\* C3 (as claimed): an updateRequestStatus on a row that is already accepted
\* or rejected, or by a user who is neither its requester nor its recipient,
\* is answered with an error, shown as an error toast, and changes no row.
C3_RefusedUpdateSignalsError ==
    [][(/\ last'.op = "updateRequestStatus"
        /\ \E r \in swap_requests :
              /\ r.id = last'.id
              /\ \/ r.status # "pending"
                 \/ SessionUser(last'.session) \notin {r.requester_id, r.recipient_id})
          => (/\ last'.error # ""
              /\ last'.toast.variant = "destructive"
              /\ swap_requests' = swap_requests)]_vars

(* ============================= feedback =============================== *)

\* C4: no two feedback rows share (swap request, reviewer); a submitFeedback
\* by a user with no row yet for an accepted swap inserts exactly one row and
\* succeeds, and one by a user who has a row for that swap is answered with
\* the unique violation 23505 and inserts nothing.
C4_OneFeedbackPerReviewer ==
    [][/\ \A f \in feedback', g \in feedback' :
             (f.swap_request_id = g.swap_request_id /\ f.reviewer_id = g.reviewer_id) => f = g
       /\ (last'.op = "submitFeedback" /\ last'.toast.title # "Please complete the form")
             => LET uid   == SessionUser(last'.session)
                    form  == page[last'.session].feedbackForm
                    prior == {f \in feedback : f.swap_request_id = form.swapRequestId
                                                  /\ f.reviewer_id = uid}
                    accepted == \E r \in swap_requests :
                                    r.id = form.swapRequestId /\ r.status = "accepted"
                IN  /\ prior # {} =>
                          (last'.error = "23505" /\ feedback' = feedback
                             /\ last'.toast.variant = "destructive")
                    /\ (prior = {} /\ accepted) =>
                          /\ last'.error = ""
                          /\ feedback \subseteq feedback'
                          /\ Cardinality(feedback' \ feedback) = 1
                          /\ \A f \in feedback' \ feedback :
                                f.swap_request_id = form.swapRequestId /\ f.reviewer_id = uid]_vars

\* C4 witness: a second submission for a swap the user has already reviewed
\* (from a tab that still lists the swap) has been refused as a duplicate.
C4_Witness ==
    /\ last.op = "submitFeedback" /\ last.error = "23505"
    /\ \E f \in feedback :
          f.swap_request_id = last.id /\ f.reviewer_id = SessionUser(last.session)

\* C5 (as claimed): every feedback row is inserted for a swap request whose
\* stored status is accepted at that moment.
C5_FeedbackOnlyForAcceptedSwap ==
    [][\A f \in feedback' \ feedback :
          \E r \in swap_requests : r.id = f.swap_request_id /\ r.status = "accepted"]_vars

(* ============================== search ================================ *)

\* the records a session's result list holds
Shown(s) == Range(page[s].users)

\* the skill ids of a record's offered-skill list, in order
OfferedIds(rec) == [i \in 1..Len(rec.offeredSkills) |-> rec.offeredSkills[i].id]

OfferedNames(rec) == {rec.offeredSkills[i].name : i \in 1..Len(rec.offeredSkills)}

\* the session's searchUsers call for a term has just been answered
Answered(s) == last.op = "searchUsersAnswered" /\ last.session = s

\* C6: no result list holds a record of the searching user.
C6_NeverOwnProfile ==
    \A s \in Sessions : \A rec \in Shown(s) : rec.user_id # SessionUser(s)

\* C6 witness: a search has listed somebody while the searcher offers a skill
\* that matches the term.
C6_Witness ==
    \E s \in Sessions :
        /\ Answered(s) /\ Shown(s) # {}
        /\ SessionUser(s) \in OfferingUsers(MatchingSkills(last.arg, skills), user_skills)

\* C7: every record of a result list is of a profile whose public flag is true.
C7_OnlyPublicProfiles ==
    \A s \in Sessions : \A rec \in Shown(s) :
        \E p \in profiles : p.user_id = rec.user_id /\ p.is_public = "true"

\* C7 witness: a search has listed somebody while another user, whose flag is
\* false or null, offers a skill that matches the term.
C7_Witness ==
    \E s \in Sessions :
        /\ Answered(s) /\ Shown(s) # {}
        /\ \E p \in profiles :
              /\ p.is_public \in {"false", "null"} /\ p.user_id # SessionUser(s)
              /\ p.user_id \in OfferingUsers(MatchingSkills(last.arg, skills), user_skills)

\* C8: in every record of a result list the offered-skill list holds each
\* skill id at most once.
C8_NoDuplicateOfferedSkill ==
    \A s \in Sessions : \A rec \in Shown(s) :
        \A i \in 1..Len(rec.offeredSkills), j \in 1..Len(rec.offeredSkills) :
            OfferedIds(rec)[i] = OfferedIds(rec)[j] => i = j

\* C8 witness: the list was grouped from an answer that repeats a skill of a
\* listed user.
C8_Witness ==
    /\ last.op = "groupAnswers" /\ Shown(last.session) # {}
    /\ \E i \in 1..Len(answers.allUserSkills), j \in 1..Len(answers.allUserSkills) :
          /\ i # j
          /\ answers.allUserSkills[i] = answers.allUserSkills[j]
          /\ answers.allUserSkills[i].skills # NoSkill
          /\ \E rec \in Shown(last.session) : rec.user_id = answers.allUserSkills[i].user_id

\* C9 (as claimed): after a searchUsers run with a blank term, and after one
\* whose term matches no skill or no offering user, the result list is empty.
C9_BlankOrUnmatchedShowsNothing ==
    \A s \in Sessions :
        /\ (last.op = "searchUsers" /\ last.session = s /\ trim(last.arg) = << >>)
              => page[s].users = << >>
        /\ (Answered(s)
              /\ OfferingUsers(MatchingSkills(last.arg, skills), user_skills) = {})
              => page[s].users = << >>

\* A offers Guitar; B, whose profile is public, offers Spanish and wants Guitar
Scenario10 ==
    /\ user_skills = {[user_id |-> "A", skill_id |-> 1, skill_type |-> "offered"],
                      [user_id |-> "B", skill_id |-> 2, skill_type |-> "offered"],
                      [user_id |-> "B", skill_id |-> 1, skill_type |-> "wanted"]}
    /\ \E p \in profiles : p.user_id = "B" /\ p.is_public = "true"

\* B is listed, offering Spanish and not Guitar
ListsB(s) ==
    \E rec \in Shown(s) :
        rec.user_id = "B" /\ Spanish \in OfferedNames(rec) /\ Guitar \notin OfferedNames(rec)

\* C10 (as claimed): in the scenario A's search for "guitar" lists B, with
\* Spanish and without Guitar among B's offered skills.
C10_GuitarSearchListsB ==
    (Scenario10 /\ Answered("a1") /\ last.arg = <<"g", "u", "i", "t", "a", "r">>)
        => ListsB("a1")

\* C10 (amended): in the scenario A's search for "guitar" lists nobody, B
\* offering no Guitar; A's search for "spanish" lists B, with Spanish and
\* without Guitar among B's offered skills.
C10_SpanishSearchListsB ==
    (Scenario10 /\ Answered("a1"))
        => /\ last.arg = <<"g", "u", "i", "t", "a", "r">> => page["a1"].users = << >>
           /\ last.arg = <<"s", "p", "a", "n", "i", "s", "h">> => ListsB("a1")

\* C10 witness: in the scenario A has searched "spanish" and got an answer.
C10_Witness ==
    /\ Scenario10 /\ Answered("a1")
    /\ last.arg = <<"s", "p", "a", "n", "i", "s", "h">>
    /\ page["a1"].users # << >>

\* str contains sub as a substring, whatever the case of the letters
Contains(str, sub) ==
    \E i \in 0..(Len(str) - Len(sub)) :
        \A j \in 1..Len(sub) : Lower(str[i + j]) = Lower(sub[j])

\* the skills user v offers, by id
OfferedBy(v) == {r.skill_id : r \in {q \in user_skills : q.user_id = v /\ q.skill_type = "offered"}}

\* the users a search by uid for term is to list: public, not uid, offering
\* a skill whose name contains the term
Expected(uid, term) ==
    {v \in Users \ {uid} :
        /\ \E p \in profiles : p.user_id = v /\ p.is_public = "true"
        /\ \E k \in skills : k.id \in OfferedBy(v) /\ Contains(k.name, term)}

\* C11 (as claimed): the answer of a search for a non-empty term lists
\* exactly one record for each public user other than the searcher who
\* offers a skill whose name contains the term, whatever the case, and
\* each record's offered skills are all those the user offers and no other.
C11_ExactlyTheOfferingUsers ==
    \A s \in Sessions :
        (Answered(s) /\ last.arg # << >>) =>
            LET want == Expected(SessionUser(s), last.arg)
            IN  /\ {rec.user_id : rec \in Shown(s)} = want
                /\ Len(page[s].users) = Cardinality(want)
                /\ \A rec \in Shown(s) :
                      {rec.offeredSkills[i].id : i \in 1..Len(rec.offeredSkills)}
                          = OfferedBy(rec.user_id)

(* ==================== identities and ownership ======================== *)

\* C12 (as claimed): a swap request row appears with the sender of the
\* statement as its requester and keeps that requester ever after; a
\* feedback row appears with the sender of the statement as its reviewer.
C12_RequesterAndReviewerAreTheInserter ==
    [][/\ \A q \in swap_requests' :
             IF \E r \in swap_requests : r.id = q.id
             THEN \A r \in swap_requests : r.id = q.id => q.requester_id = r.requester_id
             ELSE q.requester_id = last'.session
       /\ \A f \in feedback' \ feedback : f.reviewer_id = last'.session]_vars

(* ------------- the pages' reads of any stored content ----------------- *)

\* a stored swap request, or none (requester_id NULL), for one id
StoredParties ==
    [requester_id : Users \cup {NULL}, recipient_id : Users, status : {"pending", "accepted"}]

StoredRequest(id, c) ==
    [id |-> id, requester_id |-> c.requester_id, recipient_id |-> c.recipient_id,
     offered_skill_id |-> 1, wanted_skill_id |-> 2, status |-> c.status]

StoredFeedbackRows ==
    [swap_request_id : 1..MaxStoredRequests, reviewer_id : Users, reviewee_id : Users,
     rating : {MinRating}]

\* any swap requests among any users, and any feedback rows the table's
\* constraints allow, up to the two bounds
ReadInit ==
    /\ auth_users = Users
    /\ profiles = ProfileRows
    /\ skills = SkillRows
    /\ user_skills = {}
    /\ \E c \in [1..MaxStoredRequests -> StoredParties] :
          swap_requests = {StoredRequest(id, c[id]) :
                              id \in {i \in 1..MaxStoredRequests : c[i].requester_id # NULL}}
    /\ \E q \in SeqsUpTo(StoredFeedbackRows, MaxStoredFeedback) :
          /\ \A i \in 1..Len(q) : \E r \in swap_requests : r.id = q[i].swap_request_id
          /\ \A i \in 1..Len(q) : FeedbackUnique(q[i], Range(q) \ {q[i]})
          /\ feedback = Range(q)
    /\ nextId = MaxStoredRequests + 1
    /\ page = [s \in Sessions |-> NoPage]
    /\ last = Ran("", "", NULLID, "", "", 0, NoToast)
    /\ answers = NoAnswers

ReadNext == \E s \in Sessions : fetchSwapRequests(s, {}) \/ FeedbackPage(s, {})

ReadSpec == ReadInit /\ [][ReadNext]_vars

\* the rows of each table in which uid is a party
PartyRequests(uid) == {r \in swap_requests : uid \in {r.requester_id, r.recipient_id}}

PartyFeedback(uid) == {f \in feedback : uid \in {f.reviewer_id, f.reviewee_id}}

\* C13: the swap request lists of a user hold only requests the user sent
\* or received, the feedback list only rows the user wrote or is reviewed
\* in, and every list is what the same fetch gives on the tables with all
\* rows of other parties taken out.
C13_ReadsOnlyOwnRows ==
    \A s \in Sessions :
        LET uid == SessionUser(s)
            own == transformedData(uid, PartyRequests(uid), profiles, skills)
        IN  /\ page[s].route = "/swap-requests" =>
                  /\ \A q \in Range(page[s].sentRequests) \cup Range(page[s].receivedRequests) :
                        uid \in {q.requester.id, q.recipient.id}
                  /\ page[s].sentRequests =
                        SeqFilter(own, {q \in Range(own) : q.requester.id = uid})
                  /\ page[s].receivedRequests =
                        SeqFilter(own, {q \in Range(own) : q.recipient.id = uid})
            /\ page[s].route = "/feedback" =>
                  /\ \A q \in Range(page[s].acceptedSwaps) :
                        uid \in {q.requester.id, q.recipient.id}
                  /\ \A f \in page[s].myFeedback : uid \in {f.reviewer.id, f.reviewee.id}
                  /\ page[s].acceptedSwaps =
                        fetchAcceptedSwaps(uid, PartyRequests(uid), PartyFeedback(uid), profiles, skills)
                  /\ page[s].myFeedback = fetchMyFeedback(uid, PartyFeedback(uid))

\* C13 witness: a user's page lists a request while the tables hold a
\* request and a feedback row in which the user is no party.
C13_Witness ==
    \E s \in Sessions :
        /\ page[s].route = "/swap-requests"
        /\ page[s].sentRequests # << >> \/ page[s].receivedRequests # << >>
        /\ swap_requests # PartyRequests(SessionUser(s))
        /\ feedback # PartyFeedback(SessionUser(s))

\* the user a handler run or a statement was issued by
Actor(x) == IF x \in Sessions THEN SessionUser(x) ELSE x

\* the rows of a table that another user than uid owns
OthersRows(uid, table) == {r \in table : r.user_id # uid}

\* C14: whatever a user sends, the profile rows and the user-skill rows
\* owned by other users are after the step what they were before it: none
\* created, none changed, none deleted.
C14_OthersRowsUntouched ==
    [][/\ OthersRows(Actor(last'.session), profiles')
             = OthersRows(Actor(last'.session), profiles)
       /\ OthersRows(Actor(last'.session), user_skills')
             = OthersRows(Actor(last'.session), user_skills)]_vars

\* C14 witness: a user has sent a statement naming a row of another user,
\* or inserting one in another user's name, and it touched nothing.
C14_Witness ==
    /\ last.op \in {"updateProfile", "updateUserSkill", "deleteUserSkill", "insertUserSkill"}
    /\ last.count = 0
    /\ \/ last.op = "updateProfile" /\ last.arg # last.session
       \/ last.op = "insertUserSkill" /\ last.arg # last.session /\ last.error = "42501"
       \/ /\ last.op \in {"updateUserSkill", "deleteUserSkill"}
          /\ \E r \in user_skills : r.id = last.id /\ r.user_id # last.session

(* ============================== skills ================================ *)

\* the user's rows, in direction skillType, of stored skills whose name is
\* name but for the case of its letters
Listed(uid, name, skillType) ==
    {r \in user_skills :
        /\ r.user_id = uid /\ r.skill_type = skillType
        /\ \E k \in skills : k.id = r.skill_id /\ LowerStr(k.name) = LowerStr(name)}

\* the page of session s knows a skill of that name
Known(s, name) ==
    \E i \in 1..Len(page[s].allSkills) : LowerStr(page[s].allSkills[i].name) = LowerStr(name)

\* C15: no two user_skills rows share (user, skill, type); an addSkill for a
\* skill the user already lists in that direction ends in an error toast and
\* adds no row; an addSkill for a skill the page knows and the user lists
\* only in the other direction succeeds and adds the row.
C15_OneRowPerUserSkillType ==
    [][/\ \A r \in user_skills', q \in user_skills' :
             (r.user_id = q.user_id /\ r.skill_id = q.skill_id /\ r.skill_type = q.skill_type)
                 => r = q
       /\ (last'.op = "addSkill" /\ trim(page[last'.session].newSkillName) # << >>) =>
             LET s    == last'.session
                 uid  == SessionUser(s)
                 name == page[s].newSkillName
                 type == last'.arg
                 other == IF type = "offered" THEN "wanted" ELSE "offered"
             IN  /\ Listed(uid, name, type) # {} =>
                       /\ last'.error # "" /\ last'.toast.variant = "destructive"
                       /\ user_skills' = user_skills
                 /\ (Listed(uid, name, type) = {} /\ Listed(uid, name, other) # {} /\ Known(s, name)) =>
                       /\ last'.error = ""
                       /\ \E r \in user_skills' \ user_skills :
                             /\ r.user_id = uid /\ r.skill_type = type
                             /\ r.skill_id \in {q.skill_id : q \in Listed(uid, name, other)}
                       /\ Cardinality(user_skills') = Cardinality(user_skills) + 1]_vars

\* C15 witness: a user who lists a skill in both directions has tried to add
\* it once more and was refused as a duplicate.
C15_Witness ==
    /\ last.op = "addSkill" /\ last.error = "23505"
    /\ \E r \in user_skills, q \in user_skills :
          /\ r.user_id = SessionUser(last.session) /\ q.user_id = r.user_id
          /\ r.skill_id = q.skill_id /\ r.skill_type = "offered" /\ q.skill_type = "wanted"

(* ======================= feedback participants ======================== *)

\* C16 (as claimed): the reviewer and the reviewee of every feedback row are
\* the two participants of the swap request the row refers to, and the
\* reviewee held by a feedback form is the other participant of the swap
\* selected in it.
C16_ReviewerAndRevieweeAreTheParticipants ==
    /\ \A f \in feedback :
          \E r \in swap_requests :
              /\ r.id = f.swap_request_id
              /\ \/ f.reviewer_id = r.requester_id /\ f.reviewee_id = r.recipient_id
                 \/ f.reviewer_id = r.recipient_id /\ f.reviewee_id = r.requester_id
    /\ \A s \in Sessions :
          (page[s].route = "/feedback" /\ page[s].feedbackForm.swapRequestId # NULLID) =>
              \E q \in Range(page[s].acceptedSwaps) :
                  /\ q.id = page[s].feedbackForm.swapRequestId
                  /\ \/ q.requester.id = SessionUser(s)
                        /\ page[s].feedbackForm.revieweeId = q.recipient.id
                     \/ q.recipient.id = SessionUser(s)
                        /\ page[s].feedbackForm.revieweeId = q.requester.id

\* the swap requests user uid is to be offered for review: accepted, uid a
\* party, no feedback row written by uid
ToReview(uid) ==
    {r.id : r \in {q \in swap_requests :
        /\ q.status = "accepted"
        /\ uid \in {q.requester_id, q.recipient_id}
        /\ ~\E f \in feedback : f.swap_request_id = q.id /\ f.reviewer_id = uid}}

\* C17: the swaps a feedback page offers for review once its fetch has
\* completed are, each once, the accepted swap requests of its user for which
\* the user has written no feedback row.
C17_OffersExactlyTheUnreviewedSwaps ==
    \A s \in Sessions :
        page[s].route = "/feedback" =>
            /\ {q.id : q \in Range(pendingFeedback(s))} = ToReview(SessionUser(s))
            /\ Len(pendingFeedback(s)) = Cardinality(ToReview(SessionUser(s)))

\* C17 witness: a page offers a swap while another accepted swap of its
\* user, already reviewed by the user, is left out.
C17_Witness ==
    \E s \in Sessions :
        /\ page[s].route = "/feedback"
        /\ pendingFeedback(s) # << >>
        /\ \E r \in swap_requests, f \in feedback :
              /\ r.status = "accepted" /\ f.swap_request_id = r.id
              /\ f.reviewer_id = SessionUser(s)
              /\ SessionUser(s) \in {r.requester_id, r.recipient_id}

\* C18 (as claimed): a feedback row, once stored, stays in the table with
\* the rating, reviewer and reviewee it was stored with, whatever is done.
C18_FeedbackRowsStay ==
    [][feedback \subseteq feedback']_vars

(* ============================= profiles =============================== *)

\* C19 (as claimed): a profile save by a signed-up user, whose profile row
\* the signup created, is answered without error, toasts success, and leaves
\* the user's stored profile with the values of the form.
C19_SaveStoresTheForm ==
    [][last'.op = "handleSubmit" =>
          LET uid  == SessionUser(last'.session)
              form == page[last'.session].profile
          IN  (\E p \in profiles : p.user_id = uid) =>
                  /\ last'.error = ""
                  /\ last'.toast.variant = "default"
                  /\ \E p \in profiles' :
                        /\ p.user_id = uid
                        /\ p.display_name = form.display_name
                        /\ p.is_public = form.is_public]_vars

\* C20: every user signed up has exactly one profile row, nobody else has
\* one, and a profile save leaves the number of rows of its user at one.
C20_OneProfilePerUser ==
    /\ \A u \in Users :
          Cardinality({p \in profiles : p.user_id = u}) = IF u \in auth_users THEN 1 ELSE 0
    /\ \A p \in profiles, q \in profiles : p.id = q.id => p = q

\* C20 witness: a user signed up has sent a profile save.
C20_Witness ==
    /\ last.op = "handleSubmit"
    /\ SessionUser(last.session) \in auth_users
    /\ \E p \in profiles : p.user_id = SessionUser(last.session)

(* ===================== skills: names and creation ===================== *)

\* the stored skills whose name is the name typed on the page of session s,
\* surrounding spaces dropped
StoredAs(s) == {k \in skills : k.name = trim(page[s].newSkillName)}

\* C21 (as claimed): an addSkill for a name that a stored skill already has,
\* and that the user does not list yet in that direction, succeeds, links the
\* stored skill and inserts no skills row; a skills row is inserted only when
\* no stored skill has the name; names stay unique in storage.
C21_AddSkillLinksTheStoredSkill ==
    [][(last'.op = "addSkill" /\ trim(page[last'.session].newSkillName) # << >>) =>
          LET s   == last'.session
              uid == SessionUser(s)
          IN  /\ (StoredAs(s) # {} /\ Listed(uid, trim(page[s].newSkillName), last'.arg) = {}) =>
                    /\ last'.error = ""
                    /\ last'.toast.variant = "default"
                    /\ skills' = skills
                    /\ \E r \in user_skills' \ user_skills :
                          r.user_id = uid /\ r.skill_id \in {k.id : k \in StoredAs(s)}
              /\ skills' # skills => StoredAs(s) = {}
              /\ \A k \in skills', j \in skills' : k.name = j.name => k = j]_vars

(* ========================== failing calls ============================= *)

\* C22 (as claimed): a handler run in which a backend call failed ends with
\* an error notification shown.
C22_EveryFailureIsNotified ==
    [][last'.error # "" => last'.toast.variant = "destructive"]_vars

\* C23 (as claimed): an addSkill or removeSkill in which a backend call
\* failed leaves the state of its page (the two skill lists, the input) as
\* it was before the run.
C23_FailedOperationChangesNoState ==
    [][(last'.op \in {"addSkill", "removeSkill"} /\ last'.error # "") =>
          page'[last'.session] = page[last'.session]]_vars

(* ============================ busy flags ============================== *)

\* the busy flags of a page
Flags == {"loading", "adding", "sending", "submitting", "saving", "uploading"}

\* C24: with every call answered, each busy flag that is raised is lowered
\* again, the operation served, failed or returned early.
C24_EveryFlagIsLowered ==
    \A flag \in Flags : page["a1"][flag] ~> ~page["a1"][flag]

\* C24 witness: a search has returned early on an empty intermediate result
\* while another handler of the page still awaits its answer.
C24_Witness ==
    /\ last.op = "searchUsersAnswered"
    /\ last.session = "a1"
    /\ page["a1"].users = << >>
    /\ ~page["a1"].loading
    /\ page["a1"].sending

(* ---------------- C25: two sessions update the same row --------------- *)

\* C25: when a session updates the status of a swap request that is still
\* stored, whatever another session has written to it since this view was
\* fetched, the update is answered without an error, changes that one row,
\* and the stored status afterwards is the status just written.
C25_LastWriteWins ==
    [][(/\ last'.op = "updateRequestStatus"
        /\ \E r \in swap_requests : r.id = last'.id)
       => /\ last'.error = ""
          /\ last'.count = 1
          /\ \A r \in swap_requests' : r.id = last'.id => r.status = last'.arg
          /\ {r.id : r \in swap_requests'} = {r.id : r \in swap_requests}]_vars

\* a2 has declined the request its view shows as pending after a1, whose view
\* showed it as pending too, accepted it: the stored status is the later one
C25_Witness ==
    /\ last.op = "updateRequestStatus"
    /\ last.session = "a2"
    /\ last.arg = "rejected"
    /\ last.error = ""
    /\ \E q \in Range(page["a1"].receivedRequests) : q.id = last.id /\ q.status = "accepted"
    /\ \E q \in Range(page["a2"].receivedRequests) : q.id = last.id /\ q.status = "rejected"
    /\ \E r \in swap_requests : r.id = last.id /\ r.status = "rejected"

(* ------------------ C26: one cycle in flight per view ----------------- *)

\* C26 (as claimed): a search starts only while no earlier search of the
\* page awaits its answer, and each answer applied to the page is the one
\* of the search submitted first among those awaiting, so that the users
\* shown are those of the term submitted last.
C26_OneCycleInFlight ==
    [][/\ (last'.op = "searchUsers" /\ page'[last'.session].inflight # page[last'.session].inflight)
          => page[last'.session].inflight = << >>
       /\ (last'.op = "searchUsersAnswered")
          => /\ last'.arg = Head(page[last'.session].inflight)
             /\ page'[last'.session].inflight = << >>
             /\ page'[last'.session].users = SearchResult(SessionUser(last'.session), last'.arg)]_vars

\* the end of the race: "guitar" was submitted, then "spanish"; the answer
\* for "spanish" came first, and the page now shows the users found for
\* "guitar" under the term "spanish" with nothing left in flight
C26_StaleResultsShown ==
    /\ last.op = "searchUsersAnswered"
    /\ last.session = "a1"
    /\ last.arg = <<"g", "u", "i", "t", "a", "r">>
    /\ page["a1"].searchTerm = <<"s", "p", "a", "n", "i", "s", "h">>
    /\ page["a1"].inflight = << >>
    /\ ~page["a1"].loading
    /\ page["a1"].users = SearchResult("A", <<"g", "u", "i", "t", "a", "r">>)
    /\ page["a1"].users # SearchResult("A", page["a1"].searchTerm)

(* -------------- C27: reported success and the stored rows ------------- *)

\* C27 (as claimed): when deleteRequest reports success the swap request is
\* no longer stored, and when updateRequestStatus reports success the swap
\* request is stored with the status written, also from a stale view.
C27_ReportedSuccessIsStored ==
    [][/\ (last'.op = "deleteRequest" /\ last'.toast.variant = "default")
          => ~\E r \in swap_requests' : r.id = last'.id
       /\ (last'.op = "updateRequestStatus" /\ last'.toast.variant = "default")
          => \E r \in swap_requests' : r.id = last'.id /\ r.status = last'.arg]_vars

(* ------------- C28: the requests the Search view creates -------------- *)

\* C28 (as claimed): a swap request inserted by sendSwapRequest has a
\* recipient other than its requester, an offered skill among the skills the
\* requester's page lists as offered, and a wanted skill among the offered
\* skills of the card of its recipient.
C28_RequestMatchesTheDialog ==
    [][(last'.op = "sendSwapRequest" /\ swap_requests' # swap_requests)
       => \A r \in swap_requests' \ swap_requests :
             /\ r.requester_id = SessionUser(last'.session)
             /\ r.recipient_id # r.requester_id
             /\ r.offered_skill_id \in myOfferedSkills(last'.session)
             /\ r.wanted_skill_id \in CardSkills(last'.session, r.recipient_id)]_vars

(* ---------------- C29: the enriched records are complete -------------- *)

\* C29 (as claimed): every record of the sent, received and accepted-swaps
\* lists has a display name for its requester and for its recipient, and a
\* name for its offered and for its wanted skill, whatever the profiles'
\* public flags and display names are.
C29_EnrichedRecordsAreResolved ==
    \A s \in Sessions :
        \A q \in Range(page[s].sentRequests) \cup Range(page[s].receivedRequests)
                    \cup Range(page[s].acceptedSwaps) :
            /\ q.requester.display_name # Undefined
            /\ q.recipient.display_name # Undefined
            /\ q.offered_skill.name # << >>
            /\ q.wanted_skill.name # << >>

(* ------------- C30: skill names differing in case only ---------------- *)

\* C30 (as claimed): no two stored skills have names that are equal once
\* both are put in lower case.
C30_NoTwoNamesEqualIgnoringCase ==
    \A k, j \in skills : LowerStr(k.name) = LowerStr(j.name) => k = j

====
